---- MODULE Spec2Model ----
(***************************************************************************)
(* A model of autowsl's provisioning core: the package-manager detector    *)
(* and its process-wide memo (package ansible), the package ensure/install *)
(* engine, the playbook executor, the provisioning pipeline (package cmd)  *)
(* and the guest listing client (package wsl).                             *)
(*                                                                         *)
(* Every external process (exec.Command(...).Run(), runner.Run) is a       *)
(* nondeterministic step: it either succeeds or fails, and the model       *)
(* records which command was issued and what it returned.                  *)
(***************************************************************************)
EXTENDS Integers, Sequences, FiniteSets, TLC

(***************************************************************************)
(* Bounds of the model.                                                    *)
(*   NThreads   goroutines calling into package ansible                    *)
(*   NGuests    guest (distribution) names                                 *)
(*   NPaths     playbook paths on the controller                           *)
(*   MaxInputs  playbook inputs given to one pipeline run                  *)
(*   MaxLines   lines of one listing output of wsl.exe                     *)
(***************************************************************************)
NThreads == 2
NGuests == 2
NPaths == 3
MaxInputs == 3
MaxLines == 2
MaxVars == 2

Threads == 1..NThreads
Guests == 1..NGuests
Paths == 1..NPaths

(***************************************************************************)
(* supportedPMs: the static registry, in detection priority order.         *)
(* installCmd is the template up to its trailing %s.                       *)
(***************************************************************************)
supportedPMs ==
  << [name |-> "apt", checkCmd |-> "command -v apt-get",
      updateCmd |-> "sudo apt-get update",
      installCmd |-> "sudo apt-get install -y ",
      preInstallSteps |-> << "sudo apt-get install -y python3-apt" >>,
      ansiblePostInstallCmds |-> << >>, isAnsibleCore |-> FALSE],
     [name |-> "dnf", checkCmd |-> "command -v dnf",
      updateCmd |-> "",
      installCmd |-> "sudo dnf install -y ",
      preInstallSteps |-> << "sudo dnf install -y oracle-epel-release-el9 || true" >>,
      ansiblePostInstallCmds |-> << >>, isAnsibleCore |-> TRUE],
     [name |-> "yum", checkCmd |-> "command -v yum",
      updateCmd |-> "",
      installCmd |-> "sudo yum install -y ",
      preInstallSteps |-> << "sudo yum install -y epel-release || true" >>,
      ansiblePostInstallCmds |-> << >>, isAnsibleCore |-> FALSE],
     [name |-> "zypper", checkCmd |-> "command -v zypper",
      updateCmd |-> "",
      installCmd |-> "sudo zypper --non-interactive install -y ",
      preInstallSteps |-> << >>,
      ansiblePostInstallCmds |->
        << "sudo zypper --non-interactive install -y python3-dbus-python",
           "ansible-galaxy collection install community.general --force" >>,
      isAnsibleCore |-> FALSE],
     [name |-> "pacman", checkCmd |-> "command -v pacman",
      updateCmd |-> "",
      installCmd |-> "sudo pacman -S --noconfirm ",
      preInstallSteps |-> << >>,
      ansiblePostInstallCmds |-> << >>, isAnsibleCore |-> FALSE],
     [name |-> "apk", checkCmd |-> "command -v apk",
      updateCmd |-> "",
      installCmd |-> "sudo apk add ",
      preInstallSteps |-> << >>,
      ansiblePostInstallCmds |-> << >>, isAnsibleCore |-> FALSE] >>

PMs == 1..Len(supportedPMs)

\* A nil *packageManager.
NilPM == 0

(***************************************************************************)
(* State.                                                                  *)
(*   memoizedPMs  the detection memo: a map from guest to registry index   *)
(*   pmMutex      the goroutine holding the memo mutex, or 0               *)
(*   th           each goroutine's frame: its position (pc) and locals     *)
(*   probed       observer: per guest, the profiles whose detection probe  *)
(*                has been executed since the last failed detection of the *)
(*                guest (a detection in which no probe succeeded)          *)
(*   reprobed     observer: per guest, whether a probe was executed for a  *)
(*                profile already in probed                                *)
(*   firstOK      observer: per guest, the profile the first successful    *)
(*                detection returned (NilPM before)                        *)
(***************************************************************************)
VARIABLES memoizedPMs, pmMutex, th, probed, reprobed, firstOK, staged

vars == <<memoizedPMs, pmMutex, th, probed, reprobed, firstOK, staged>>

observers == <<probed, reprobed, firstOK>>

\* What the staged path of a guest holds (the variable staged): the content
\* of a playbook, named by the playbook's path, or one of these.
NoContent == 0
PartialContent == -1

\* One external command as the observer log records it: where in the code
\* it was issued (kind), its text, and whether it returned without error.
LogEntry(kind, cmd, ok) == [kind |-> kind, cmd |-> cmd, ok |-> ok]

\* A nil error.
NilErr == [kind |-> "nil", msg |-> << >>]

\* A goroutine that is not running anything.
IdleFrame ==
  [pc |-> "idle", g |-> 0,
   \* observers: the commands issued by the current top-level call, the
   \* pipeline positions during which a command was issued, the playbooks
   \* ExecutePlaybook was invoked for, and what the first of two successive
   \* ensurePackage calls did
   log |-> << >>, touched |-> {}, execCalls |-> << >>,
   first |-> [called |-> FALSE, present |-> FALSE, probes |-> 0,
              installs |-> 0, others |-> 0, err |-> ""],
   \* detectPackageManager
   dret |-> "", dres |-> NilPM, derr |-> "", derrGuest |-> 0, i |-> 0,
   dstart |-> 0, known |-> NilPM,
   \* ensurePackage, fixKaliRepositories, InstallPackage
   eret |-> "", commandName |-> "", packageName |-> "", pm |-> NilPM,
   present |-> FALSE, j |-> 0, eerr |-> "", estart |-> 0, eend |-> 0,
   edone |-> FALSE,
   \* ExecutePlaybook, CloneGitRepo
   playbookPath |-> 0, xerr |-> "", cerr |-> "",
   \* observer: the content the playbook command found at the staged path
   ran |-> 0,
   \* runProvisioningPipeline
   playbookPaths |-> << >>, idx |-> 0, Results |-> << >>,
   printed |-> FALSE, perr |-> "", looped |-> FALSE,
   \* observers: the extra-vars entries and playbook inputs the pipeline was
   \* given, kept until its first playbook starts or it returns
   kvs |-> << >>, inputs |-> << >>,
   opts |-> [Tags |-> << >>, Verbose |-> FALSE, ExtraVars |-> << >>],
   \* ListInstalledDistros; Calls is an observer, the commands it has run
   Calls |-> << >>, output |-> << >>, stderr |-> << >>, lerr |-> NilErr,
   fallbackOut |-> << >>, fallbackErrStr |-> << >>, fallbackErr |-> NilErr,
   \* the returned list, whether it is a nil slice, and the returned error:
   \* its format ("" is nil) and the errors formatted into it
   distros |-> << >>, isNil |-> FALSE, rerr |-> "", rerrArgs |-> << >>,
   \* parseWSLList called on its own: its output parameter and results;
   \* pItems and pEnc are observers, what the output was made from
   pItems |-> << >>, pEnc |-> "", pInput |-> << >>, pDistros |-> << >>,
   pErr |-> "",
   \* buildAnsibleCommand called on its own: its playbookPath parameter and
   \* the string it returned (its opts are in opts)
   bPath |-> "", bCmd |-> "",
   \* observer: 0 while no detection has failed in the current top-level
   \* call, 1 once one has, 2 once a detection probe was executed after that
   nosupport |-> 0,
   \* Import, Unregister, Export: the operation and its arguments, what
   \* os.Stat and os.MkdirAll answer (observers), the result of
   \* IsDistroInstalled and the error returned ("" is nil)
   op |-> "", name |-> << >>, InstallPath |-> "", TarFilePath |-> "",
   outputPath |-> "", statErr |-> "", mkdirOK |-> FALSE, exists |-> FALSE,
   oerr |-> "",
   \* ExecRunner.Run, RunWithInput: the runner's DryRun, the arguments, whether
   \* cmd.Run() was reached (observer) and the three results
   DryRun |-> FALSE, rop |-> "", rname |-> << >>, rargs |-> << >>,
   rstdin |-> << >>, executed |-> FALSE, stdout |-> << >>, rstderr |-> << >>,
   runErr |-> NilErr,
   \* runInstall: the step it is at ("" outside runInstall) and the error it
   \* returned ("" is nil)
   ri |-> "", rierr |-> ""]

\* A goroutine that never runs.
OffFrame == [IdleFrame EXCEPT !.pc = "off"]

\* The goroutine of the command line, between two calls, for guest g.
MainFrame(g) == [IdleFrame EXCEPT !.pc = "main", !.g = g]

\* A top-level call starts: the observer log starts empty.
CallEntry(f) ==
  [f EXCEPT !.log = << >>, !.edone = FALSE, !.estart = 0, !.eend = 0,
            !.dstart = 0]

\* The frame after issuing one external command.
Emit(f, kind, cmd, ok) ==
  [f EXCEPT !.log = Append(@, LogEntry(kind, cmd, ok)),
            !.touched = @ \cup {f.idx}]

(***************************************************************************)
(* The Go map memoizedPMs: lookup and store.                               *)
(***************************************************************************)
MemoHas(m, g) == g \in DOMAIN m

\* Mutant: the store replaces the whole map, evicting the other guests.
MemoPutEvicting(m, g, pm) == [x \in {g} |-> pm]

MemoPut(m, g, pm) == [x \in (DOMAIN m) \cup {g} |-> IF x = g THEN pm ELSE m[x]]

(***************************************************************************)
(* detectPackageManager(distroName), one step per lock operation, memo     *)
(* access and detection probe.                                             *)
(***************************************************************************)

\* The commands this detectPackageManager call has issued.
DetectLog(f) == SubSeq(f.log, f.dstart + 1, Len(f.log))

\* Mutant: the call does not wait for the mutex.
DetectLockNoWait(t) ==
  /\ th[t].pc = "d_lock"
  /\ pmMutex' = pmMutex
  /\ th' = [th EXCEPT ![t].pc = "d_lookup", ![t].known = firstOK[th[t].g]]
  /\ UNCHANGED <<staged, memoizedPMs, observers>>

\* pmMutex.Lock(): blocks until the mutex is free. The observer known notes
\* what an earlier successful detection of this guest returned, if any.
DetectLock(t) ==
  /\ th[t].pc = "d_lock"
  /\ pmMutex = 0
  /\ pmMutex' = t
  /\ th' = [th EXCEPT ![t].pc = "d_lookup", ![t].known = firstOK[th[t].g]]
  /\ UNCHANGED <<staged, memoizedPMs, observers>>

\* Mutant: the mutex is released before the probe loop (held for the lookup
\* only).
DetectLookupUnlocked(t) ==
  /\ th[t].pc = "d_lookup"
  /\ IF MemoHas(memoizedPMs, th[t].g)
       THEN /\ th' = [th EXCEPT ![t].pc = "d_unlock",
                                ![t].dres = memoizedPMs[th[t].g],
                                ![t].derr = ""]
            /\ pmMutex' = pmMutex
       ELSE /\ th' = [th EXCEPT ![t].pc = "d_probe", ![t].i = 1]
            /\ pmMutex' = 0
  /\ UNCHANGED <<staged, memoizedPMs, observers>>

\* if pm, ok := memoizedPMs[distroName]; ok { return pm, nil }
\* On a miss the probe loop starts; the mutex stays held (defer Unlock).
DetectLookup(t) ==
  /\ th[t].pc = "d_lookup"
  /\ IF MemoHas(memoizedPMs, th[t].g)
       THEN th' = [th EXCEPT ![t].pc = "d_unlock",
                             ![t].dres = memoizedPMs[th[t].g],
                             ![t].derr = ""]
       ELSE th' = [th EXCEPT ![t].pc = "d_probe", ![t].i = 1]
  /\ UNCHANGED <<staged, memoizedPMs, pmMutex, observers>>

\* Mutant: the loop stops one profile short of the end of the registry.
DetectProbeShort(t) ==
  /\ th[t].pc = "d_probe"
  /\ \E ok \in BOOLEAN :
       LET g == th[t].g
           i == th[t].i
           f == [Emit(th[t], "detect", supportedPMs[i].checkCmd, ok)
                   EXCEPT !.nosupport =
                     IF @ >= 1 THEN 2
                     ELSE IF ~ok /\ i = Len(supportedPMs) THEN 1 ELSE 0]
       IN /\ probed' = [probed EXCEPT ![g] =
                         IF ~ok /\ i = Len(supportedPMs) THEN {} ELSE @ \cup {i}]
          /\ reprobed' = [reprobed EXCEPT ![g] = @ \/ (i \in probed[g])]
          /\ IF ok
               THEN th' = [th EXCEPT ![t] = [f EXCEPT !.pc = "d_write"]]
               ELSE IF i < Len(supportedPMs) - 1
                 THEN th' = [th EXCEPT ![t] = [f EXCEPT !.i = i + 1]]
                 ELSE th' = [th EXCEPT ![t] =
                               [f EXCEPT !.pc = "d_unlock", !.dres = NilPM,
                                  !.derr = "could not detect a supported package manager",
                                  !.derrGuest = g]]
  /\ UNCHANGED <<staged, memoizedPMs, pmMutex, firstOK>>

\* One iteration of "for i := range supportedPMs": run pm.checkCmd in the
\* guest; ok is whether checkPMCmd.Run() returned nil. After the last
\* profile the call fails with an error that names the guest.
DetectProbe(t) ==
  /\ th[t].pc = "d_probe"
  /\ \E ok \in BOOLEAN :
       LET g == th[t].g
           i == th[t].i
           f == [Emit(th[t], "detect", supportedPMs[i].checkCmd, ok)
                   EXCEPT !.nosupport =
                     IF @ >= 1 THEN 2
                     ELSE IF ~ok /\ i = Len(supportedPMs) THEN 1 ELSE 0]
       IN /\ probed' = [probed EXCEPT ![g] =
                         IF ~ok /\ i = Len(supportedPMs) THEN {} ELSE @ \cup {i}]
          /\ reprobed' = [reprobed EXCEPT ![g] = @ \/ (i \in probed[g])]
          /\ IF ok
               THEN th' = [th EXCEPT ![t] = [f EXCEPT !.pc = "d_write"]]
               ELSE IF i < Len(supportedPMs)
                 THEN th' = [th EXCEPT ![t] = [f EXCEPT !.i = i + 1]]
                 ELSE th' = [th EXCEPT ![t] =
                               [f EXCEPT !.pc = "d_unlock", !.dres = NilPM,
                                  !.derr = "could not detect a supported package manager",
                                  !.derrGuest = g]]
  /\ UNCHANGED <<staged, memoizedPMs, pmMutex, firstOK>>

\* memoizedPMs[distroName] = pm; return pm, nil
DetectWrite(t) ==
  /\ th[t].pc = "d_write"
  /\ memoizedPMs' = MemoPut(memoizedPMs, th[t].g, th[t].i)
  /\ th' = [th EXCEPT ![t].pc = "d_unlock", ![t].dres = th[t].i,
                      ![t].derr = ""]
  /\ UNCHANGED <<staged, pmMutex, observers>>

\* Where a call of detectPackageManager returns to.
DetectReturnFrame(f) ==
  IF f.dret = "caller" THEN IdleFrame ELSE [f EXCEPT !.pc = f.dret]

\* The deferred pmMutex.Unlock(), and the return to the caller.
DetectUnlock(t) ==
  /\ th[t].pc = "d_unlock"
  /\ pmMutex' = 0
  /\ firstOK' = [firstOK EXCEPT ![th[t].g] =
                   IF @ = NilPM /\ th[t].derr = "" THEN th[t].dres ELSE @]
  /\ th' = [th EXCEPT ![t] = DetectReturnFrame(th[t])]
  /\ UNCHANGED <<staged, memoizedPMs, probed, reprobed>>

\* The entry of a detectPackageManager call for guest g, returning to ret.
DetectEntry(f, g, ret) ==
  [f EXCEPT !.pc = "d_lock", !.g = g, !.dret = ret, !.dres = NilPM,
            !.derr = "", !.derrGuest = 0, !.i = 0, !.dstart = Len(f.log),
            !.known = NilPM]

(***************************************************************************)
(* Concurrent callers: each goroutine calls detectPackageManager for a     *)
(* guest of its choice, again and again.                                   *)
(***************************************************************************)
CallDetect(t) ==
  /\ th[t].pc = "idle"
  /\ \E g \in Guests : th' = [th EXCEPT ![t] = DetectEntry(th[t], g, "caller")]
  /\ UNCHANGED <<staged, memoizedPMs, pmMutex, observers>>

InitShared ==
  /\ memoizedPMs = << >>
  /\ pmMutex = 0
  /\ probed = [g \in Guests |-> {}]
  /\ reprobed = [g \in Guests |-> FALSE]
  /\ firstOK = [g \in Guests |-> NilPM]
  /\ staged = [g \in Guests |-> NoContent]

InitDetect ==
  /\ InitShared
  /\ th = [t \in Threads |-> IdleFrame]

NextDetect ==
  \E t \in Threads :
    \/ CallDetect(t)
    \/ DetectLock(t)
    \/ DetectLookup(t)
    \/ DetectProbe(t)
    \/ DetectWrite(t)
    \/ DetectUnlock(t)

SpecDetect == InitDetect /\ [][NextDetect]_vars

(***************************************************************************)
(* ensurePackage(distroName, commandName, packageName) with                *)
(* fixKaliRepositories and InstallPackage, one step per external command.  *)
(***************************************************************************)

\* The commands of the current (or, once it returned, the last)
\* ensurePackage call.
EnsureLog(f) ==
  SubSeq(f.log, f.estart + 1, IF f.edone THEN f.eend ELSE Len(f.log))

\* The entries of log L whose kind is in K, in order.
RECURSIVE OfKinds(_, _)
OfKinds(L, K) ==
  IF Len(L) = 0 THEN << >>
  ELSE IF Head(L).kind \in K THEN << Head(L) >> \o OfKinds(Tail(L), K)
  ELSE OfKinds(Tail(L), K)

\* The commands that install something: pre-install steps, the install
\* command, post-install steps.
InstallKinds == {"pre", "install", "post"}

\* The commands that only look at the guest: the presence probe, the
\* detection probes and the collection check.
ProbeKinds == {"presence", "detect", "collection"}

\* What the observer first keeps of a finished ensurePackage call: whether
\* the command was present, how many presence probes, installing commands
\* and commands that are neither installs nor probes it issued, its result.
EnsureSummary(f) ==
  [called |-> TRUE, present |-> f.present,
   probes |-> Len(OfKinds(EnsureLog(f), {"presence"})),
   installs |-> Len(OfKinds(EnsureLog(f), InstallKinds)),
   others |-> Len(EnsureLog(f))
                - Len(OfKinds(EnsureLog(f), InstallKinds \cup ProbeKinds)),
   err |-> f.eerr]

EnsureEntry(f, commandName, packageName, ret) ==
  [f EXCEPT !.pc = "e_probe", !.eret = ret, !.commandName = commandName,
            !.packageName = packageName, !.pm = NilPM, !.present = FALSE,
            !.j = 0, !.eerr = "", !.estart = Len(f.log), !.eend = 0,
            !.edone = FALSE]

\* return err (nil is "") from ensurePackage to its caller
EnsureReturn(f, err) ==
  [f EXCEPT !.pc = f.eret, !.eerr = err, !.eend = Len(f.log),
            !.edone = TRUE]

\* InstallPackage starts with its own detectPackageManager call.
InstallEntry(f) == DetectEntry(f, f.g, "i_detected")

\* Mutant: a command that is present is installed all the same.
EnsureProbeReinstall(t) ==
  /\ th[t].pc = "e_probe"
  /\ \E ok \in BOOLEAN :
       LET f == [Emit(th[t], "presence", "command -v " \o th[t].commandName, ok)
                   EXCEPT !.present = ok]
       IN th' = [th EXCEPT ![t] = DetectEntry(f, f.g, "e_absent")]
  /\ UNCHANGED <<staged, memoizedPMs, pmMutex, observers>>

\* checkCmd := "command -v "+commandName; alreadyInstalled := Run() == nil.
\* Present: done, unless the package is ansible (then detect, line 306).
\* Absent: detect (line 327).
EnsureProbe(t) ==
  /\ th[t].pc = "e_probe"
  /\ \E ok \in BOOLEAN :
       LET f == [Emit(th[t], "presence", "command -v " \o th[t].commandName, ok)
                   EXCEPT !.present = ok]
       IN th' = [th EXCEPT ![t] =
                   IF ok
                     THEN IF f.packageName = "ansible"
                            THEN DetectEntry(f, f.g, "e_present")
                            ELSE EnsureReturn(f, "")
                     ELSE DetectEntry(f, f.g, "e_absent")]
  /\ UNCHANGED <<staged, memoizedPMs, pmMutex, observers>>

\* Mutant: a present ansible is taken as complete, whatever the profile.
EnsurePresentDetectedSkip(t) ==
  /\ th[t].pc = "e_present"
  /\ th' = [th EXCEPT ![t] = EnsureReturn(th[t], "")]
  /\ UNCHANGED <<staged, memoizedPMs, pmMutex, observers>>

\* if err == nil && len(pm.ansiblePostInstallCmds) > 0 { if pm.name == "zypper"
EnsurePresentDetected(t) ==
  /\ th[t].pc = "e_present"
  /\ LET f == th[t]
     IN th' = [th EXCEPT ![t] =
                 IF /\ f.derr = ""
                    /\ Len(supportedPMs[f.dres].ansiblePostInstallCmds) > 0
                    /\ supportedPMs[f.dres].name = "zypper"
                   THEN [f EXCEPT !.pc = "e_collection", !.pm = f.dres]
                   ELSE EnsureReturn(f, "")]
  /\ UNCHANGED <<staged, memoizedPMs, pmMutex, observers>>

\* checkCollection.Run(): on failure the post-install steps are run.
EnsureCollection(t) ==
  /\ th[t].pc = "e_collection"
  /\ \E ok \in BOOLEAN :
       LET f == Emit(th[t], "collection",
                     "ansible-galaxy collection list | grep -q community.general", ok)
       IN th' = [th EXCEPT ![t] =
                   IF ok THEN EnsureReturn(f, "")
                   ELSE [f EXCEPT !.pc = "e_post", !.j = 1]]
  /\ UNCHANGED <<staged, memoizedPMs, pmMutex, observers>>

\* for _, step := range pm.ansiblePostInstallCmds (lines 314-318)
EnsurePost(t) ==
  /\ th[t].pc = "e_post"
  /\ \E ok \in BOOLEAN :
       LET steps == supportedPMs[th[t].pm].ansiblePostInstallCmds
           f == Emit(th[t], "post", steps[th[t].j], ok)
       IN th' = [th EXCEPT ![t] =
                   IF ~ok THEN EnsureReturn(f, "ansible post-install step failed")
                   ELSE IF f.j < Len(steps) THEN [f EXCEPT !.j = f.j + 1]
                   ELSE EnsureReturn(f, "")]
  /\ UNCHANGED <<staged, memoizedPMs, pmMutex, observers>>

\* pm, err := detectPackageManager(distroName); if err != nil { return err }
\* if pm.name == "apt" { fixKaliRepositories ... } ; else InstallPackage.
EnsureAbsentDetected(t) ==
  /\ th[t].pc = "e_absent"
  /\ LET f == th[t]
     IN th' = [th EXCEPT ![t] =
                 IF f.derr # "" THEN EnsureReturn(f, f.derr)
                 ELSE IF supportedPMs[f.dres].name = "apt"
                   THEN [f EXCEPT !.pc = "k_check", !.pm = f.dres]
                   ELSE InstallEntry([f EXCEPT !.pm = f.dres])]
  /\ UNCHANGED <<staged, memoizedPMs, pmMutex, observers>>

\* fixKaliRepositories: the steps after the fingerprint probe. Only the
\* backup's failure is not fatal.
KaliSteps ==
  << [kind |-> "kali-backup", fatal |-> FALSE, err |-> "",
      cmd |-> "sudo cp /etc/apt/sources.list /etc/apt/sources.list.bak 2>/dev/null || true"],
     [kind |-> "kali-sources", fatal |-> TRUE,
      err |-> "failed to update sources.list",
      cmd |-> "sudo sh -c 'sed -i \"s/^deb/#deb/g\" /etc/apt/sources.list && echo \"deb [signed-by=/usr/share/keyrings/kali-archive-keyring.gpg] https://kali.download/kali kali-rolling main contrib non-free non-free-firmware\" >> /etc/apt/sources.list'"],
     [kind |-> "kali-key", fatal |-> TRUE,
      err |-> "failed to download Kali archive keyring",
      cmd |-> "wget -q https://archive.kali.org/archive-keyring.gpg -O /tmp/kali-archive-keyring.gpg && sudo mv /tmp/kali-archive-keyring.gpg /usr/share/keyrings/kali-archive-keyring.gpg"],
     [kind |-> "kali-update", fatal |-> TRUE,
      err |-> "failed to update package lists",
      cmd |-> "sudo apt-get update"],
     [kind |-> "kali-gnupg", fatal |-> TRUE,
      err |-> "failed to install gnupg",
      cmd |-> "sudo apt-get install -y gnupg"] >>

\* Mutant: the repair steps are run whatever the fingerprint probe says.
KaliCheckAlways(t) ==
  /\ th[t].pc = "k_check"
  /\ \E ok \in BOOLEAN :
       LET f == Emit(th[t], "kali", "grep -i kali /etc/os-release", ok)
       IN th' = [th EXCEPT ![t] = [f EXCEPT !.pc = "k_step", !.j = 1]]
  /\ UNCHANGED <<staged, memoizedPMs, pmMutex, observers>>

\* checkKaliCmd.Run() != nil: not Kali, fixKaliRepositories returns nil and
\* ensurePackage goes on to its own fingerprint probe.
KaliCheck(t) ==
  /\ th[t].pc = "k_check"
  /\ \E ok \in BOOLEAN :
       LET f == Emit(th[t], "kali", "grep -i kali /etc/os-release", ok)
       IN th' = [th EXCEPT ![t] =
                   IF ok THEN [f EXCEPT !.pc = "k_step", !.j = 1]
                   ELSE [f EXCEPT !.pc = "e_kali"]]
  /\ UNCHANGED <<staged, memoizedPMs, pmMutex, observers>>

\* Mutant: a failed step does not stop the repair.
KaliStepLenient(t) ==
  /\ th[t].pc = "k_step"
  /\ \E ok \in BOOLEAN :
       LET step == KaliSteps[th[t].j]
           f == Emit(th[t], step.kind, step.cmd, ok)
       IN th' = [th EXCEPT ![t] =
                   IF f.j < Len(KaliSteps) THEN [f EXCEPT !.j = f.j + 1]
                   ELSE [f EXCEPT !.pc = "e_kali"]]
  /\ UNCHANGED <<staged, memoizedPMs, pmMutex, observers>>

\* Steps 1 to 5 of fixKaliRepositories. A fatal step's failure is returned
\* by ensurePackage as it is (line 334-336).
KaliStep(t) ==
  /\ th[t].pc = "k_step"
  /\ \E ok \in BOOLEAN :
       LET step == KaliSteps[th[t].j]
           f == Emit(th[t], step.kind, step.cmd, ok)
       IN th' = [th EXCEPT ![t] =
                   IF ~ok /\ step.fatal THEN EnsureReturn(f, step.err)
                   ELSE IF f.j < Len(KaliSteps) THEN [f EXCEPT !.j = f.j + 1]
                   ELSE [f EXCEPT !.pc = "e_kali"]]
  /\ UNCHANGED <<staged, memoizedPMs, pmMutex, observers>>

\* isKaliCmd.Run() != nil: not Kali, so run the standard update.
EnsureKaliCheck(t) ==
  /\ th[t].pc = "e_kali"
  /\ \E ok \in BOOLEAN :
       LET f == Emit(th[t], "kali", "grep -i kali /etc/os-release", ok)
       IN th' = [th EXCEPT ![t] =
                   IF ok THEN InstallEntry(f)
                   ELSE [f EXCEPT !.pc = "e_update"]]
  /\ UNCHANGED <<staged, memoizedPMs, pmMutex, observers>>

\* runWslCommand(distroName, pm.updateCmd), first attempt
EnsureUpdate(t) ==
  /\ th[t].pc = "e_update"
  /\ \E ok \in BOOLEAN :
       LET f == Emit(th[t], "update", supportedPMs[th[t].pm].updateCmd, ok)
       IN th' = [th EXCEPT ![t] =
                   IF ok THEN InstallEntry(f)
                   ELSE [f EXCEPT !.pc = "e_fix"]]
  /\ UNCHANGED <<staged, memoizedPMs, pmMutex, observers>>

\* _ = runWslCommand(distroName, fixCmd)
EnsureFix(t) ==
  /\ th[t].pc = "e_fix"
  /\ \E ok \in BOOLEAN :
       LET f == Emit(th[t], "fix",
                     "sudo sed -i '/bullseye-backports/d' /etc/apt/sources.list /etc/apt/sources.list.d/* 2>/dev/null || true",
                     ok)
       IN th' = [th EXCEPT ![t] = [f EXCEPT !.pc = "e_retry"]]
  /\ UNCHANGED <<staged, memoizedPMs, pmMutex, observers>>

\* Mutant: a failed retry is only reported, and the install goes ahead.
EnsureUpdateRetryLenient(t) ==
  /\ th[t].pc = "e_retry"
  /\ \E ok \in BOOLEAN :
       LET f == Emit(th[t], "update", supportedPMs[th[t].pm].updateCmd, ok)
       IN th' = [th EXCEPT ![t] = InstallEntry(f)]
  /\ UNCHANGED <<staged, memoizedPMs, pmMutex, observers>>

\* runWslCommand(distroName, pm.updateCmd), the retry after the fix
EnsureUpdateRetry(t) ==
  /\ th[t].pc = "e_retry"
  /\ \E ok \in BOOLEAN :
       LET f == Emit(th[t], "update", supportedPMs[th[t].pm].updateCmd, ok)
       IN th' = [th EXCEPT ![t] =
                   IF ok THEN InstallEntry(f)
                   ELSE EnsureReturn(f, "apt-get update failed even after attempting to fix broken sources")]
  /\ UNCHANGED <<staged, memoizedPMs, pmMutex, observers>>

\* Mutant: InstallPackage skips the pre-install steps.
InstallDetectedNoPre(t) ==
  /\ th[t].pc = "i_detected"
  /\ LET f == th[t]
     IN th' = [th EXCEPT ![t] =
                 IF f.derr # "" THEN EnsureReturn(f, f.derr)
                 ELSE [f EXCEPT !.pc = "i_install", !.pm = f.dres]]
  /\ UNCHANGED <<staged, memoizedPMs, pmMutex, observers>>

\* InstallPackage: pm, err := detectPackageManager(distroName); the
\* pre-install steps if there are any, else the install command.
InstallDetected(t) ==
  /\ th[t].pc = "i_detected"
  /\ LET f == th[t]
     IN th' = [th EXCEPT ![t] =
                 IF f.derr # "" THEN EnsureReturn(f, f.derr)
                 ELSE IF Len(supportedPMs[f.dres].preInstallSteps) > 0
                   THEN [f EXCEPT !.pc = "i_pre", !.pm = f.dres, !.j = 1]
                   ELSE [f EXCEPT !.pc = "i_install", !.pm = f.dres]]
  /\ UNCHANGED <<staged, memoizedPMs, pmMutex, observers>>

\* Mutant: a failed pre-install step is only reported.
InstallPreLenient(t) ==
  /\ th[t].pc = "i_pre"
  /\ \E ok \in BOOLEAN :
       LET steps == supportedPMs[th[t].pm].preInstallSteps
           f == Emit(th[t], "pre", steps[th[t].j], ok)
       IN th' = [th EXCEPT ![t] =
                   IF f.j < Len(steps) THEN [f EXCEPT !.j = f.j + 1]
                   ELSE [f EXCEPT !.pc = "i_install"]]
  /\ UNCHANGED <<staged, memoizedPMs, pmMutex, observers>>

\* for _, step := range pm.preInstallSteps: a failure is fatal.
InstallPre(t) ==
  /\ th[t].pc = "i_pre"
  /\ \E ok \in BOOLEAN :
       LET steps == supportedPMs[th[t].pm].preInstallSteps
           f == Emit(th[t], "pre", steps[th[t].j], ok)
       IN th' = [th EXCEPT ![t] =
                   IF ~ok THEN EnsureReturn(f, "pre-install step failed")
                   ELSE IF f.j < Len(steps) THEN [f EXCEPT !.j = f.j + 1]
                   ELSE [f EXCEPT !.pc = "i_install"]]
  /\ UNCHANGED <<staged, memoizedPMs, pmMutex, observers>>

\* Mutant: ansible is renamed on every profile.
InstallPkgNameEverywhere(pm, packageName) ==
  IF packageName = "ansible" THEN "ansible-core" ELSE packageName

\* installPkgName: "ansible-core" for ansible on a profile with isAnsibleCore
InstallPkgName(pm, packageName) ==
  IF packageName = "ansible" /\ supportedPMs[pm].isAnsibleCore
    THEN "ansible-core" ELSE packageName

\* fmt.Sprintf(pm.installCmd, installPkgName): the %s ends every template
InstallCmdStr(pm, packageName) ==
  supportedPMs[pm].installCmd \o InstallPkgName(pm, packageName)

\* Mutant: a failed install command is only reported.
InstallRunLenient(t) ==
  /\ th[t].pc = "i_install"
  /\ \E ok \in BOOLEAN :
       LET f == Emit(th[t], "install",
                     InstallCmdStr(th[t].pm, th[t].packageName), ok)
       IN th' = [th EXCEPT ![t] =
                   IF /\ f.packageName = "ansible"
                      /\ Len(supportedPMs[f.pm].ansiblePostInstallCmds) > 0
                     THEN [f EXCEPT !.pc = "i_post", !.j = 1]
                     ELSE EnsureReturn(f, "")]
  /\ UNCHANGED <<staged, memoizedPMs, pmMutex, observers>>

\* The install command; then, for ansible on a profile with post-install
\* steps, those steps.
InstallRun(t) ==
  /\ th[t].pc = "i_install"
  /\ \E ok \in BOOLEAN :
       LET f == Emit(th[t], "install",
                     InstallCmdStr(th[t].pm, th[t].packageName), ok)
       IN th' = [th EXCEPT ![t] =
                   IF ~ok THEN EnsureReturn(f, "install command failed")
                   ELSE IF /\ f.packageName = "ansible"
                           /\ Len(supportedPMs[f.pm].ansiblePostInstallCmds) > 0
                     THEN [f EXCEPT !.pc = "i_post", !.j = 1]
                     ELSE EnsureReturn(f, "")]
  /\ UNCHANGED <<staged, memoizedPMs, pmMutex, observers>>

\* for _, step := range pm.ansiblePostInstallCmds (lines 284-289)
InstallPost(t) ==
  /\ th[t].pc = "i_post"
  /\ \E ok \in BOOLEAN :
       LET steps == supportedPMs[th[t].pm].ansiblePostInstallCmds
           f == Emit(th[t], "post", steps[th[t].j], ok)
       IN th' = [th EXCEPT ![t] =
                   IF ~ok THEN EnsureReturn(f, "ansible post-install step failed")
                   ELSE IF f.j < Len(steps) THEN [f EXCEPT !.j = f.j + 1]
                   ELSE EnsureReturn(f, "")]
  /\ UNCHANGED <<staged, memoizedPMs, pmMutex, observers>>

(***************************************************************************)
(* Two ensurePackage calls in succession for the same guest, command and   *)
(* package, as CloneGitRepo makes them for git and consecutive             *)
(* ExecutePlaybook calls for ansible.                                      *)
(***************************************************************************)

\* The (commandName, packageName) pairs the callers pass.
EnsureArgs ==
  { [commandName |-> "git", packageName |-> "git"],
    [commandName |-> "ansible-playbook", packageName |-> "ansible"] }

\* The first of the two calls.
EnsureFirst(t) ==
  /\ th[t].pc = "main"
  /\ \E a \in EnsureArgs :
       th' = [th EXCEPT ![t] =
                EnsureEntry(CallEntry(th[t]), a.commandName, a.packageName,
                            "t_again")]
  /\ UNCHANGED <<staged, memoizedPMs, pmMutex, observers>>

\* The first call has returned; the second starts.
EnsureAgain(t) ==
  /\ th[t].pc = "t_again"
  /\ LET f == th[t]
     IN th' = [th EXCEPT ![t] =
                 EnsureEntry([CallEntry(f) EXCEPT !.first = EnsureSummary(f)],
                             f.commandName, f.packageName, "t_done")]
  /\ UNCHANGED <<staged, memoizedPMs, pmMutex, observers>>

\* The second call has returned.
EnsureTwiceReturn(t) ==
  /\ th[t].pc = "t_done"
  /\ th' = [th EXCEPT ![t] = MainFrame(th[t].g)]
  /\ UNCHANGED <<staged, memoizedPMs, pmMutex, observers>>

NextEnsure ==
  \E t \in Threads :
    \/ EnsureFirst(t)
    \/ EnsureAgain(t)
    \/ EnsureTwiceReturn(t)
    \/ DetectLock(t)
    \/ DetectLookup(t)
    \/ DetectProbe(t)
    \/ DetectWrite(t)
    \/ DetectUnlock(t)
    \/ EnsureProbe(t)
    \/ EnsurePresentDetected(t)
    \/ EnsureCollection(t)
    \/ EnsurePost(t)
    \/ EnsureAbsentDetected(t)
    \/ KaliCheck(t)
    \/ KaliStep(t)
    \/ EnsureKaliCheck(t)
    \/ EnsureUpdate(t)
    \/ EnsureFix(t)
    \/ EnsureUpdateRetry(t)
    \/ InstallDetected(t)
    \/ InstallPre(t)
    \/ InstallRun(t)
    \/ InstallPost(t)

(***************************************************************************)
(* ExecutePlaybook(opts), copyPlaybookToWSL, buildAnsibleCommand,          *)
(* CloneGitRepo.                                                           *)
(***************************************************************************)

\* strings.Join(elems, sep)
RECURSIVE Join(_, _)
Join(elems, sep) ==
  IF Len(elems) = 0 THEN ""
  ELSE IF Len(elems) = 1 THEN elems[1]
  ELSE elems[1] \o sep \o Join(Tail(elems), sep)

\* fmt.Sprintf("%s=%s", k, v) for each entry of the ExtraVars map, in the
\* order the map iteration yields them.
RECURSIVE KeyVals(_)
KeyVals(extraVars) ==
  IF Len(extraVars) = 0 THEN << >>
  ELSE << extraVars[1].k \o "=" \o extraVars[1].v >> \o KeyVals(Tail(extraVars))

\* Mutant: the verbosity flag is written before the tags.
buildAnsibleCommandVerboseFirst(playbookPath, opts) ==
  "ansible-playbook " \o playbookPath \o " --connection=local -i localhost,"
    \o (IF opts.Verbose THEN " -vvv" ELSE "")
    \o (IF Len(opts.Tags) > 0 THEN " --tags " \o Join(opts.Tags, ",") ELSE "")
    \o (IF Len(opts.ExtraVars) > 0
          THEN " --extra-vars '" \o Join(KeyVals(opts.ExtraVars), " ") \o "'"
          ELSE "")

buildAnsibleCommand(playbookPath, opts) ==
  "ansible-playbook " \o playbookPath \o " --connection=local -i localhost,"
    \o (IF Len(opts.Tags) > 0 THEN " --tags " \o Join(opts.Tags, ",") ELSE "")
    \o (IF opts.Verbose THEN " -vvv" ELSE "")
    \o (IF Len(opts.ExtraVars) > 0
          THEN " --extra-vars '" \o Join(KeyVals(opts.ExtraVars), " ") \o "'"
          ELSE "")

\* The fixed guest path the playbook is staged at.
wslPlaybookPath == "/tmp/autowsl-playbook.yml"

\* The options the pipeline runs are given: two tags, verbose output and
\* one extra variable.
OptChoices ==
  { [Tags |-> << "base", "dev" >>, Verbose |-> TRUE,
     ExtraVars |-> << [k |-> "user", v |-> "john"] >>] }


\* ExecutePlaybook is invoked for a playbook path.
ExecEntry(f, path) ==
  [CallEntry(f) EXCEPT !.pc = "x_stat", !.playbookPath = path, !.xerr = "",
                       !.execCalls = Append(@, path)]

\* os.Stat(opts.PlaybookPath), then ensurePackage for ansible
ExecStat(t) ==
  /\ th[t].pc = "x_stat"
  /\ \E ok \in BOOLEAN :
       th' = [th EXCEPT ![t] =
                IF ok THEN EnsureEntry(th[t], "ansible-playbook", "ansible", "x_ensured")
                ELSE [th[t] EXCEPT !.pc = "x_ret", !.xerr = "playbook file not found"]]
  /\ UNCHANGED <<staged, memoizedPMs, pmMutex, observers>>

\* Mutant: the error of ensurePackage is not looked at.
ExecEnsuredIgnored(t) ==
  /\ th[t].pc = "x_ensured"
  /\ th' = [th EXCEPT ![t] = [th[t] EXCEPT !.pc = "x_read"]]
  /\ UNCHANGED <<staged, memoizedPMs, pmMutex, observers>>

\* if err := ensurePackage(...); err != nil { return ... }
ExecEnsured(t) ==
  /\ th[t].pc = "x_ensured"
  /\ th' = [th EXCEPT ![t] =
              IF th[t].eerr # ""
                THEN [th[t] EXCEPT !.pc = "x_ret",
                                   !.xerr = "failed to ensure Ansible is installed"]
                ELSE [th[t] EXCEPT !.pc = "x_read"]]
  /\ UNCHANGED <<staged, memoizedPMs, pmMutex, observers>>

\* copyPlaybookToWSL: os.ReadFile(windowsPlaybookPath)
ExecCopyRead(t) ==
  /\ th[t].pc = "x_read"
  /\ \E ok \in BOOLEAN :
       th' = [th EXCEPT ![t] =
                IF ok THEN [th[t] EXCEPT !.pc = "x_write"]
                ELSE [th[t] EXCEPT !.pc = "x_ret",
                                   !.xerr = "failed to copy playbook to WSL"]]
  /\ UNCHANGED <<staged, memoizedPMs, pmMutex, observers>>

\* Mutant: the copy does not replace a file that is there.
ExecCopyWriteKeep(t) ==
  /\ th[t].pc = "x_write"
  /\ \E ok \in BOOLEAN :
       LET f == Emit(th[t], "copy",
                     "cat > '" \o wslPlaybookPath \o "' && chmod 644 '"
                       \o wslPlaybookPath \o "'", ok)
       IN /\ th' = [th EXCEPT ![t] =
                      IF ok THEN [f EXCEPT !.pc = "x_run"]
                      ELSE [f EXCEPT !.pc = "x_ret",
                                     !.xerr = "failed to copy playbook to WSL"]]
          /\ staged' = IF ok /\ staged[f.g] = NoContent
                         THEN [staged EXCEPT ![f.g] = f.playbookPath]
                         ELSE staged
  /\ UNCHANGED <<memoizedPMs, pmMutex, observers>>

\* copyPlaybookToWSL: cat > path && chmod 644 path, fed the content that
\* was read. The command that succeeds has replaced what the path held; the
\* one that fails has left it, truncated it or written it.
ExecCopyWrite(t) ==
  /\ th[t].pc = "x_write"
  /\ \E ok \in BOOLEAN :
       LET f == Emit(th[t], "copy",
                     "cat > '" \o wslPlaybookPath \o "' && chmod 644 '"
                       \o wslPlaybookPath \o "'", ok)
       IN /\ th' = [th EXCEPT ![t] =
                      IF ok THEN [f EXCEPT !.pc = "x_run"]
                      ELSE [f EXCEPT !.pc = "x_ret",
                                     !.xerr = "failed to copy playbook to WSL"]]
          /\ \E c \in IF ok THEN {f.playbookPath}
                       ELSE {staged[f.g], PartialContent, f.playbookPath} :
               staged' = [staged EXCEPT ![f.g] = c]
  /\ UNCHANGED <<memoizedPMs, pmMutex, observers>>

\* Mutant: the playbook command finds the content its own call staged.
ExecRunOwn(t) ==
  /\ th[t].pc = "x_run"
  /\ \E ok \in BOOLEAN :
       LET f == Emit(th[t], "run",
                     buildAnsibleCommand(wslPlaybookPath, th[t].opts), ok)
       IN th' = [th EXCEPT ![t] =
                   [f EXCEPT !.pc = "x_ret", !.ran = f.playbookPath,
                             !.xerr = IF ok THEN "" ELSE "playbook execution failed"]]
  /\ UNCHANGED <<staged, memoizedPMs, pmMutex, observers>>

\* runWslCommand(opts.DistroName, ansibleCmd)
ExecRun(t) ==
  /\ th[t].pc = "x_run"
  /\ \E ok \in BOOLEAN :
       LET f == Emit(th[t], "run",
                     buildAnsibleCommand(wslPlaybookPath, th[t].opts), ok)
       IN th' = [th EXCEPT ![t] =
                   [f EXCEPT !.pc = "x_ret", !.ran = staged[f.g],
                             !.xerr = IF ok THEN "" ELSE "playbook execution failed"]]
  /\ UNCHANGED <<staged, memoizedPMs, pmMutex, observers>>

\* CloneGitRepo: ensurePackage(distroName, "git", "git") first
CloneStart(t) ==
  /\ th[t].pc = "main"
  /\ th' = [th EXCEPT ![t] =
              EnsureEntry([CallEntry(th[t]) EXCEPT !.cerr = ""],
                          "git", "git", "c_ensured")]
  /\ UNCHANGED <<staged, memoizedPMs, pmMutex, observers>>

CloneEnsured(t) ==
  /\ th[t].pc = "c_ensured"
  /\ th' = [th EXCEPT ![t] =
              IF th[t].eerr # ""
                THEN [th[t] EXCEPT !.pc = "c_ret",
                                   !.cerr = "failed to ensure git is installed"]
                ELSE [th[t] EXCEPT !.pc = "c_clone"]]
  /\ UNCHANGED <<staged, memoizedPMs, pmMutex, observers>>

\* git clone <repoURL> <destDir>
CloneRun(t) ==
  /\ th[t].pc = "c_clone"
  /\ \E ok \in BOOLEAN :
       LET f == Emit(th[t], "clone", "git clone", ok)
       IN th' = [th EXCEPT ![t] =
                   [f EXCEPT !.pc = "c_ret",
                             !.cerr = IF ok THEN "" ELSE "failed to clone repository"]]
  /\ UNCHANGED <<staged, memoizedPMs, pmMutex, observers>>

\* CloneGitRepo has returned to the command.
CloneReturn(t) ==
  /\ th[t].pc = "c_ret"
  /\ th' = [th EXCEPT ![t] = MainFrame(th[t].g)]
  /\ UNCHANGED <<staged, memoizedPMs, pmMutex, observers>>

(***************************************************************************)
(* Text. A string is a sequence of characters, each character a string of  *)
(* length one; the characters Go writes with an escape are named.          *)
(***************************************************************************)
NUL == "\\x00"
BOM == "\\ufeff"
VT == "\\v"
NBSP == "\\u00a0"

Digit == {"0", "1", "2", "3", "4", "5", "6", "7", "8", "9"}

LowerLetters ==
  << "a", "b", "c", "d", "e", "f", "g", "h", "i", "j", "k", "l", "m",
     "n", "o", "p", "q", "r", "s", "t", "u", "v", "w", "x", "y", "z" >>

UpperLetters ==
  << "A", "B", "C", "D", "E", "F", "G", "H", "I", "J", "K", "L", "M",
     "N", "O", "P", "Q", "R", "S", "T", "U", "V", "W", "X", "Y", "Z" >>

Range(s) == {s[n] : n \in 1..Len(s)}

\* regexp \w, \d and \s
WordChar == Digit \cup Range(LowerLetters) \cup Range(UpperLetters) \cup {"_"}

ReSpace == {" ", "\t", "\n", "\r", "\f"}

\* unicode.IsSpace, which strings.TrimSpace trims
UnicodeSpace == ReSpace \cup {VT, NBSP}

\* strings.ToLower
ToLowerChar(c) ==
  IF \E n \in 1..Len(UpperLetters) : UpperLetters[n] = c
    THEN LowerLetters[CHOOSE n \in 1..Len(UpperLetters) : UpperLetters[n] = c]
    ELSE c

ToLower(s) == [n \in 1..Len(s) |-> ToLowerChar(s[n])]

\* strings.HasPrefix, strings.TrimPrefix, strings.Contains
HasPrefix(s, prefix) ==
  Len(s) >= Len(prefix) /\ SubSeq(s, 1, Len(prefix)) = prefix

TrimPrefix(s, prefix) ==
  IF HasPrefix(s, prefix) THEN SubSeq(s, Len(prefix) + 1, Len(s)) ELSE s

Contains(s, substr) ==
  \E n \in 0..(Len(s) - Len(substr)) : SubSeq(s, n + 1, n + Len(substr)) = substr

\* strings.ReplaceAll(s, c, "") for a single character c
RemoveChar(s, c) == SelectSeq(s, LAMBDA x : x # c)

\* strings.ReplaceAll(s, old, ""), old not empty
RECURSIVE RemoveAll(_, _)
RemoveAll(s, old) ==
  IF Len(s) = 0 THEN << >>
  ELSE IF HasPrefix(s, old) THEN RemoveAll(SubSeq(s, Len(old) + 1, Len(s)), old)
  ELSE << Head(s) >> \o RemoveAll(Tail(s), old)

\* strings.TrimLeft(s, cutset) and its mirror, cutset a set of characters
RECURSIVE TrimLeft(_, _)
TrimLeft(s, cutset) ==
  IF Len(s) > 0 /\ Head(s) \in cutset THEN TrimLeft(Tail(s), cutset) ELSE s

RECURSIVE TrimRight(_, _)
TrimRight(s, cutset) ==
  IF Len(s) > 0 /\ s[Len(s)] \in cutset
    THEN TrimRight(SubSeq(s, 1, Len(s) - 1), cutset) ELSE s

\* strings.TrimSpace
TrimSpace(s) == TrimRight(TrimLeft(s, UnicodeSpace), UnicodeSpace)

(***************************************************************************)
(* Resolver.ResolveMultiple and runProvisioningPipeline.                   *)
(***************************************************************************)

\* The input that is the comma-separated list "1,2,1".
CommaList == NPaths + 1

\* A playbook input is a path, the comma-separated list, or 0 for an input
\* that resolves to nothing.
Inputs == 0..CommaList

InputLists == UNION { [1..n -> Inputs] : n \in 0..MaxInputs }

\* Resolver.Resolve of one input: the path it names, the paths of a
\* comma-separated list in the order of the list, or an error.
Resolve(input) ==
  IF input = 0 THEN [err |-> "could not resolve", paths |-> << >>]
  ELSE IF input = CommaList THEN [err |-> "", paths |-> << 1, 2, 1 >>]
  ELSE [err |-> "", paths |-> << input >>]

\* Mutant: every path is appended, seen or not.
AppendAll(results, paths) == results \o paths

\* for _, p := range paths { if !seen[p] { results = append(results, p) } }
RECURSIVE AppendUnseen(_, _)
AppendUnseen(results, paths) ==
  IF Len(paths) = 0 THEN results
  ELSE AppendUnseen(
         IF \E k \in 1..Len(results) : results[k] = Head(paths)
           THEN results ELSE Append(results, Head(paths)),
         Tail(paths))

RECURSIVE ResolveFrom(_, _, _)
ResolveFrom(inputs, k, results) ==
  IF k > Len(inputs) THEN [err |-> "", paths |-> results]
  ELSE LET r == Resolve(inputs[k])
       IN IF r.err # "" THEN [err |-> "failed to resolve", paths |-> << >>]
          ELSE ResolveFrom(inputs, k + 1, AppendUnseen(results, r.paths))

ResolveMultiple(inputs) == ResolveFrom(inputs, 1, << >>)

\* filepath.Base(path): path p stands for file p \div 2 of directory p % 2,
\* so that two paths can share a base name.
Base(p) == p \div 2

\* ExecutionSummary
Add(Results, result) == Append(Results, result)

HasFailures(Results) == \E k \in 1..Len(Results) : Results[k].Status = "failed"

SuccessCount(Results) ==
  Cardinality({k \in 1..Len(Results) : Results[k].Status = "success"})

\* strings.SplitN(kv, "=", 2): the text before and after the first "=", or
\* the text alone
SplitN2(kv) ==
  IF \E n \in 1..Len(kv) : kv[n] = "="
    THEN LET c == CHOOSE n \in 1..Len(kv) :
                    kv[n] = "=" /\ \A m \in 1..(n - 1) : kv[m] # "="
         IN << SubSeq(kv, 1, c - 1), SubSeq(kv, c + 1, Len(kv)) >>
    ELSE << kv >>

\* m[key] = val on a map kept as a sequence of entries
MapPut(m, key, val) ==
  IF \E n \in 1..Len(m) : m[n].k = key
    THEN [n \in 1..Len(m) |-> IF m[n].k = key THEN [k |-> key, v |-> val] ELSE m[n]]
    ELSE Append(m, [k |-> key, v |-> val])

\* Mutant: an entry with an empty key is taken.
RECURSIVE ParseFromLax(_, _)
ParseFromLax(kvs, m) ==
  IF Len(kvs) = 0 THEN [err |-> "", m |-> m]
  ELSE LET parts == SplitN2(Head(kvs))
       IN IF Len(parts) # 2
            THEN [err |-> "invalid extra-vars entry", m |-> << >>]
            ELSE ParseFromLax(Tail(kvs),
                              MapPut(m, TrimSpace(parts[1]), TrimSpace(parts[2])))

\* for _, kv := range kvs of ParseExtraVars, from the map m built so far
RECURSIVE ParseFrom(_, _)
ParseFrom(kvs, m) ==
  IF Len(kvs) = 0 THEN [err |-> "", m |-> m]
  ELSE LET parts == SplitN2(Head(kvs))
       IN IF Len(parts) # 2
            THEN [err |-> "invalid extra-vars entry", m |-> << >>]
          ELSE IF TrimSpace(parts[1]) = << >>
            THEN [err |-> "empty key in extra-vars entry", m |-> << >>]
          ELSE ParseFrom(Tail(kvs),
                         MapPut(m, TrimSpace(parts[1]), TrimSpace(parts[2])))

ParseExtraVars(kvs) == ParseFrom(kvs, << >>)

\* The characters of a text as one string.
RECURSIVE Str(_)
Str(s) == IF Len(s) = 0 THEN "" ELSE Head(s) \o Str(Tail(s))

\* The map of ParseExtraVars as PlaybookOptions.ExtraVars holds it.
StrMap(m) == [n \in 1..Len(m) |-> [k |-> Str(m[n].k), v |-> Str(m[n].v)]]

\* The --extra-vars entries a pipeline is given: well-formed ones, one with
\* spaces around the key and the value, one without "=", one with an empty
\* and one with a blank key, and an ill-formed one after a well-formed one.
ExtraVarInputs ==
  { << << "u", "s", "e", "r", "=", "j", "o", "h", "n" >> >>,
    << << " ", "u", "s", "e", "r", " ", "=", " ", "j", "o", "h", "n", " " >> >>,
    << << "d", "e", "b", "u", "g" >> >>,
    << << "=", "j", "o", "h", "n" >> >>,
    << << " ", "=", "j", "o", "h", "n" >> >>,
    << << "a", "=", "b", "=", "c" >>,
       << "d", "e", "b", "u", "g" >> >> }

\* runProvisioningPipeline up to the loop: parse the extra variables, create
\* the temp directory, resolve the inputs; a failure of either, an input
\* that cannot be resolved, or no playbook at all, is an error.
PipelineStart(t) ==
  /\ th[t].pc = "main"
  /\ \E inputs \in InputLists, opts \in OptChoices,
        kvs \in ExtraVarInputs, mkdirOK \in BOOLEAN :
       LET r == ResolveMultiple(inputs)
           extraVarsMap == ParseExtraVars(kvs)
           f0 == [th[t] EXCEPT !.kvs = kvs, !.inputs = inputs]
           f == [f0 EXCEPT !.playbookPaths = r.paths,
                           !.opts = [opts EXCEPT !.ExtraVars =
                                       StrMap(extraVarsMap.m)]]
       IN th' = [th EXCEPT ![t] =
                   IF extraVarsMap.err # ""
                     THEN [f0 EXCEPT !.pc = "p_ret",
                                     !.perr = "invalid extra-vars"]
                   ELSE IF ~mkdirOK
                     THEN [f0 EXCEPT !.pc = "p_ret",
                                     !.perr = "failed to create temp dir"]
                   ELSE IF r.err # ""
                     THEN [f EXCEPT !.pc = "p_ret",
                                    !.perr = "failed to resolve playbooks"]
                   ELSE IF Len(r.paths) = 0
                     THEN [f EXCEPT !.pc = "p_ret",
                                    !.perr = "no playbooks resolved"]
                   ELSE [f EXCEPT !.pc = "p_loop", !.idx = 1]]
  /\ UNCHANGED <<staged, memoizedPMs, pmMutex, observers>>

\* for _, playbookPath := range playbookPaths: ExecutePlaybook(execOpts)
PipelineLoop(t) ==
  /\ th[t].pc = "p_loop"
  /\ th' = [th EXCEPT ![t] =
              IF th[t].idx <= Len(th[t].playbookPaths)
                THEN ExecEntry([th[t] EXCEPT !.kvs = << >>, !.inputs = << >>],
                               th[t].playbookPaths[th[t].idx])
                ELSE [th[t] EXCEPT !.pc = "p_after"]]
  /\ UNCHANGED <<staged, memoizedPMs, pmMutex, observers>>

\* The pipeline's frame once ExecutePlaybook has returned err: the locals of
\* the returned call are gone.
PipelineFrame(f) ==
  [MainFrame(f.g) EXCEPT !.playbookPaths = f.playbookPaths, !.idx = f.idx,
                         !.Results = f.Results, !.opts = f.opts,
                         !.xerr = f.xerr, !.playbookPath = f.playbookPath,
                         !.touched = f.touched, !.execCalls = f.execCalls,
                         !.nosupport = f.nosupport, !.Calls = f.Calls,
                         !.ri = f.ri]

\* Mutant: a failed playbook is recorded and the loop goes on.
PipelineRecordContinue(t) ==
  /\ th[t].pc = "x_ret"
  /\ LET f == PipelineFrame(th[t])
         name == Base(f.playbookPath)
     IN th' = [th EXCEPT ![t] =
                 [f EXCEPT !.pc = "p_loop", !.idx = f.idx + 1,
                           !.Results = Add(@, [PlaybookName |-> name,
                              Status |-> IF f.xerr # "" THEN "failed" ELSE "success",
                              Error |-> f.xerr])]]
  /\ UNCHANGED <<staged, memoizedPMs, pmMutex, observers>>

\* if err != nil { summary.Add(failed); break } else { summary.Add(success) }
PipelineRecord(t) ==
  /\ th[t].pc = "x_ret"
  /\ LET f == PipelineFrame(th[t])
         name == Base(f.playbookPath)
     IN th' = [th EXCEPT ![t] =
                 IF f.xerr # ""
                   THEN [f EXCEPT !.pc = "p_after",
                                  !.Results = Add(@, [PlaybookName |-> name,
                                                      Status |-> "failed",
                                                      Error |-> f.xerr])]
                   ELSE [f EXCEPT !.pc = "p_loop", !.idx = f.idx + 1,
                                  !.Results = Add(@, [PlaybookName |-> name,
                                                      Status |-> "success",
                                                      Error |-> ""])]]
  /\ UNCHANGED <<staged, memoizedPMs, pmMutex, observers>>

\* Mutant: the pipeline reports failure only when nothing succeeded.
PipelineAfterLenient(t) ==
  /\ th[t].pc = "p_after"
  /\ LET f == th[t]
     IN th' = [th EXCEPT ![t] =
                 [f EXCEPT !.pc = "p_ret", !.looped = TRUE,
                           !.printed = Len(f.playbookPaths) > 1 /\ Len(f.Results) > 0,
                           !.perr = IF SuccessCount(f.Results) = 0
                                      THEN "provisioning completed with failures"
                                      ELSE ""]]
  /\ UNCHANGED <<staged, memoizedPMs, pmMutex, observers>>

\* if len(playbookPaths) > 1 { summary.Print() } (Print shows nothing for an
\* empty summary); if summary.HasFailures() { return error }; return nil
PipelineAfter(t) ==
  /\ th[t].pc = "p_after"
  /\ LET f == th[t]
     IN th' = [th EXCEPT ![t] =
                 [f EXCEPT !.pc = "p_ret", !.looped = TRUE,
                           !.printed = Len(f.playbookPaths) > 1 /\ Len(f.Results) > 0,
                           !.perr = IF HasFailures(f.Results)
                                      THEN "provisioning completed with failures"
                                      ELSE ""]]
  /\ UNCHANGED <<staged, memoizedPMs, pmMutex, observers>>

\* runProvisioningPipeline has returned to the command.
PipelineReturn(t) ==
  /\ th[t].pc = "p_ret"
  /\ th' = [th EXCEPT ![t] = MainFrame(th[t].g)]
  /\ UNCHANGED <<staged, memoizedPMs, pmMutex, observers>>

(***************************************************************************)
(* One command-line process: its goroutine targets one guest, may clone a  *)
(* repository (CloneGitRepo) and runs provisioning pipelines.              *)
(***************************************************************************)
MainThread == 1

Init ==
  /\ InitShared
  /\ \E g \in Guests :
       th = [t \in Threads |->
               IF t = MainThread THEN MainFrame(g) ELSE OffFrame]

Next ==
  \E t \in Threads :
    \/ CloneStart(t)
    \/ CloneEnsured(t)
    \/ CloneRun(t)
    \/ CloneReturn(t)
    \/ PipelineStart(t)
    \/ PipelineLoop(t)
    \/ PipelineRecord(t)
    \/ PipelineAfter(t)
    \/ PipelineReturn(t)
    \/ ExecStat(t)
    \/ ExecEnsured(t)
    \/ ExecCopyRead(t)
    \/ ExecCopyWrite(t)
    \/ ExecRun(t)
    \/ EnsureProbe(t)
    \/ EnsurePresentDetected(t)
    \/ EnsureCollection(t)
    \/ EnsurePost(t)
    \/ EnsureAbsentDetected(t)
    \/ KaliCheck(t)
    \/ KaliStep(t)
    \/ EnsureKaliCheck(t)
    \/ EnsureUpdate(t)
    \/ EnsureFix(t)
    \/ EnsureUpdateRetry(t)
    \/ InstallDetected(t)
    \/ InstallPre(t)
    \/ InstallRun(t)
    \/ InstallPost(t)
    \/ DetectLock(t)
    \/ DetectLookup(t)
    \/ DetectProbe(t)
    \/ DetectWrite(t)
    \/ DetectUnlock(t)

Spec == Init /\ [][Next]_vars

(***************************************************************************)
(* Two goroutines that each call ExecutePlaybook once, for the same guest, *)
(* so that two calls can run at once against it.                           *)
(***************************************************************************)
\* The goroutines that make the calls.
Callers == {1, 2}

InitConcurrent ==
  /\ InitShared
  /\ \E g \in Guests :
       th = [t \in Threads |->
               IF t \in Callers THEN MainFrame(g) ELSE OffFrame]

\* ExecutePlaybook(opts): each goroutine has a playbook of its own, named
\* by the goroutine's number.
ExecStart(t) ==
  /\ th[t].pc = "main"
  /\ \E opts \in OptChoices :
       th' = [th EXCEPT ![t] = ExecEntry([th[t] EXCEPT !.opts = opts], t)]
  /\ UNCHANGED <<staged, memoizedPMs, pmMutex, observers>>

\* ExecutePlaybook has returned to its caller, which ends.
ExecReturn(t) ==
  /\ th[t].pc = "x_ret"
  /\ th' = [th EXCEPT ![t] = IdleFrame]
  /\ UNCHANGED <<staged, memoizedPMs, pmMutex, observers>>

NextConcurrent ==
  \E t \in Threads :
    \/ ExecStart(t)
    \/ ExecReturn(t)
    \/ ExecStat(t)
    \/ ExecEnsured(t)
    \/ ExecCopyRead(t)
    \/ ExecCopyWrite(t)
    \/ ExecRun(t)
    \/ EnsureProbe(t)
    \/ EnsurePresentDetected(t)
    \/ EnsureCollection(t)
    \/ EnsurePost(t)
    \/ EnsureAbsentDetected(t)
    \/ KaliCheck(t)
    \/ KaliStep(t)
    \/ EnsureKaliCheck(t)
    \/ EnsureUpdate(t)
    \/ EnsureFix(t)
    \/ EnsureUpdateRetry(t)
    \/ InstallDetected(t)
    \/ InstallPre(t)
    \/ InstallRun(t)
    \/ InstallPost(t)
    \/ DetectLock(t)
    \/ DetectLookup(t)
    \/ DetectProbe(t)
    \/ DetectWrite(t)
    \/ DetectUnlock(t)

SpecConcurrent == InitConcurrent /\ [][NextConcurrent]_vars

\* The command's goroutine making pairs of successive ensurePackage calls.
SpecEnsure == Init /\ [][NextEnsure]_vars

\* strings.Split(s, "\n"): always at least one line
RECURSIVE Split(_)
Split(s) ==
  IF \A n \in 1..Len(s) : s[n] # "\n" THEN << s >>
  ELSE LET n == CHOOSE m \in 1..Len(s) :
                  s[m] = "\n" /\ \A q \in 1..(m - 1) : s[q] # "\n"
       IN << SubSeq(s, 1, n - 1) >> \o Split(SubSeq(s, n + 1, Len(s)))

\* strings.Join(elems, "\n") of texts
RECURSIVE JoinText(_)
JoinText(elems) ==
  IF Len(elems) = 0 THEN << >>
  ELSE IF Len(elems) = 1 THEN elems[1]
  ELSE elems[1] \o << "\n" >> \o JoinText(Tail(elems))

(***************************************************************************)
(* parseWSLList and parseWSLListBasic.                                     *)
(***************************************************************************)

\* The maximal runs of characters of s that are not regexp whitespace.
RECURSIVE Fields(_)
Fields(s) ==
  LET t == TrimLeft(s, ReSpace)
  IN IF Len(t) = 0 THEN << >>
     ELSE LET n == IF \E m \in 1..Len(t) : t[m] \in ReSpace
                     THEN CHOOSE m \in 1..Len(t) :
                            t[m] \in ReSpace /\ \A q \in 1..(m - 1) : t[q] \notin ReSpace
                     ELSE Len(t) + 1
          IN << SubSeq(t, 1, n - 1) >> \o Fields(SubSeq(t, n, Len(t)))

\* \w+ and \d+
IsWord(s) == Len(s) > 0 /\ \A n \in 1..Len(s) : s[n] \in WordChar

IsDigits(s) == Len(s) > 0 /\ \A n \in 1..Len(s) : s[n] \in Digit

\* Mutant: the '*' marker is not recognized.
FindStringSubmatchNoMarker(line) ==
  LET F == Fields(line)
  IN IF Len(F) = 3 /\ IsWord(F[2]) /\ IsDigits(F[3])
       THEN << line, << >>, F[1], F[2], F[3] >>
       ELSE << >>

\* re.FindStringSubmatch(line) for ^\s*(\*?)\s*([^\s]+)\s+(\w+)\s+(\d+)\s*$
\* Groups 2 to 4 hold no whitespace and whitespace must separate them, so a
\* line matches when its fields are name, state, version, or "*", name,
\* state, version. The greedy \*? takes a leading "*" of the name field
\* unless that field is the "*" alone (then the "*" is the name).
FindStringSubmatch(line) ==
  LET F == Fields(line)
  IN IF Len(F) = 4 /\ F[1] = << "*" >> /\ IsWord(F[3]) /\ IsDigits(F[4])
       THEN << line, << "*" >>, F[2], F[3], F[4] >>
     ELSE IF Len(F) = 3 /\ IsWord(F[2]) /\ IsDigits(F[3])
       THEN IF Head(F[1]) = "*" /\ Len(F[1]) > 1
              THEN << line, << "*" >>, Tail(F[1]), F[2], F[3] >>
              ELSE << line, << >>, F[1], F[2], F[3] >>
     ELSE << >>

InstalledDistro(name, state, version, default) ==
  [Name |-> name, State |-> state, Version |-> version, Default |-> default]

\* The index of the first line that contains "NAME" or "---", or 0.
HeaderLine(lines) ==
  LET isHeader(n) == \/ Contains(lines[n], << "N", "A", "M", "E" >>)
                     \/ Contains(lines[n], << "-", "-", "-" >>)
  IN IF \E n \in 1..Len(lines) : isHeader(n)
       THEN CHOOSE n \in 1..Len(lines) :
              isHeader(n) /\ \A q \in 1..(n - 1) : ~isHeader(q)
       ELSE 0

\* for _, line := range lines[startIdx:] of parseWSLList
RECURSIVE ParseLines(_)
ParseLines(lines) ==
  IF Len(lines) = 0 THEN << >>
  ELSE LET line    == TrimSpace(Head(lines))
           matches == FindStringSubmatch(line)
       IN (IF line # << >> /\ Len(matches) = 5
             THEN << InstalledDistro(TrimSpace(matches[3]), TrimSpace(matches[4]),
                                     TrimSpace(matches[5]),
                                     matches[2] = << "*" >>) >>
             ELSE << >>)
          \o ParseLines(Tail(lines))

\* Mutant: a line that matches no token shape fails the whole parse.
parseWSLListStrict(output) ==
  LET lines == Split(TrimPrefix(RemoveChar(output, NUL), << BOM >>))
      rest  == SubSeq(lines, HeaderLine(lines) + 1, Len(lines))
  IN IF \A n \in 1..Len(rest) :
          TrimSpace(rest[n]) = << >>
            \/ Len(FindStringSubmatch(TrimSpace(rest[n]))) = 5
       THEN [distros |-> ParseLines(rest), err |-> ""]
       ELSE [distros |-> << >>, err |-> "invalid line"]

\* parseWSLList(output): the records (var distros []InstalledDistro, a nil
\* slice while nothing is appended) and the error, which is always nil
parseWSLList(output) ==
  LET lines == Split(TrimPrefix(RemoveChar(output, NUL), << BOM >>))
  IN [distros |-> ParseLines(SubSeq(lines, HeaderLine(lines) + 1, Len(lines))),
      err |-> ""]

\* The header lines parseWSLListBasic skips.
IsBasicHeader(l) ==
  \/ HasPrefix(l, << "w", "i", "n", "d", "o", "w", "s", " ", "s", "u", "b", "s", "y",
                     "s", "t", "e", "m", " ", "f", "o", "r", " ", "l", "i", "n", "u",
                     "x" >>)
  \/ Contains(l, << "d", "i", "s", "t", "r", "i", "b", "u", "t", "i", "o", "n", "s",
                    ":" >>)
  \/ HasPrefix(l, << "t", "h", "e", " ", "f", "o", "l", "l", "o", "w", "i", "n", "g" >>)

\* Mutant: a leading asterisk marks the default as well.
RECURSIVE ParseBasicLinesStar(_)
ParseBasicLinesStar(lines) ==
  IF Len(lines) = 0 THEN << >>
  ELSE LET line        == TrimSpace(Head(lines))
           tagged      == Contains(line, << "(", "D", "e", "f", "a", "u", "l", "t", ")" >>)
           defaultFlag == tagged \/ HasPrefix(line, << "*" >>)
           untagged    == IF tagged
                            THEN TrimSpace(RemoveAll(line, << "(", "D", "e", "f", "a", "u", "l", "t", ")" >>))
                            ELSE line
           name        == TrimLeft(untagged, {"*", " "})
       IN (IF line = << >> \/ IsBasicHeader(ToLower(line)) \/ name = << >>
             THEN << >>
             ELSE << InstalledDistro(name, << >>, << >>, defaultFlag) >>)
          \o ParseBasicLinesStar(Tail(lines))

\* for _, raw := range lines of parseWSLListBasic
RECURSIVE ParseBasicLines(_)
ParseBasicLines(lines) ==
  IF Len(lines) = 0 THEN << >>
  ELSE LET line        == TrimSpace(Head(lines))
           defaultFlag == Contains(line, << "(", "D", "e", "f", "a", "u", "l", "t", ")" >>)
           untagged    == IF defaultFlag
                            THEN TrimSpace(RemoveAll(line, << "(", "D", "e", "f", "a", "u", "l", "t", ")" >>))
                            ELSE line
           name        == TrimLeft(untagged, {"*", " "})
       IN (IF line = << >> \/ IsBasicHeader(ToLower(line)) \/ name = << >>
             THEN << >>
             ELSE << InstalledDistro(name, << >>, << >>, defaultFlag) >>)
          \o ParseBasicLines(Tail(lines))

parseWSLListBasic(output) ==
  ParseBasicLines(Split(TrimPrefix(RemoveChar(output, NUL), << BOM >>)))

(***************************************************************************)
(* The runner: what a Run of wsl.exe can return.                           *)
(***************************************************************************)

\* The lines a listing is made of.
LineChoices ==
  { << " ", " ", "N", "A", "M", "E", " ", " ", "S", "T", "A", "T", "E",
       " ", " ", "V", "E", "R", "S", "I", "O", "N" >>,
    << "*", " ", "U", "b", "-", "2", " ", " ", "R", "u", "n", "n", "i",
       "n", "g", " ", " ", "2" >>,
    << " ", " ", "D", "e", "b", " ", " ", "S", "t", "o", "p", "p", "e",
       "d", " ", " ", "1" >>,
    << "W", "i", "n", "d", "o", "w", "s", " ", "S", "u", "b", "s", "y",
       "s", "t", "e", "m", " ", "f", "o", "r", " ", "L", "i", "n", "u",
       "x", " ", "D", "i", "s", "t", "r", "i", "b", "u", "t", "i", "o",
       "n", "s", ":" >>,
    << "U", "b", "-", "2", " ", "(", "D", "e", "f", "a", "u", "l", "t",
       ")" >>,
    << >> }

\* Every line followed by a newline.
RECURSIVE Lines(_)
Lines(ls) ==
  IF Len(ls) = 0 THEN << >> ELSE Head(ls) \o << "\n" >> \o Lines(Tail(ls))

\* wsl.exe writes UTF-16: a byte-order mark first, a null byte after every
\* character.
Wide(s) ==
  [n \in 1..(2 * Len(s)) |-> IF n % 2 = 1 THEN s[(n + 1) \div 2] ELSE NUL]

Texts ==
  LET plain == { Lines(ls) : ls \in UNION { [1..n -> LineChoices] : n \in 0..MaxLines } }
  IN plain \cup { << BOM >> \o Wide(s) : s \in plain }

\* The errors exec returns: the exit status of a failed command, or the kill
\* of a command that ran into the runner's timeout.
RunErrors ==
  { [kind |-> "generic", msg |-> << "e", "x", "i", "t", " ", "s", "t", "a", "t", "u", "s", " ", "1" >>],
    [kind |-> "generic", msg |-> << "e", "x", "i", "t", " ", "s", "t", "a", "t", "u", "s", " ", "0",
                                    "x", "f", "f", "f", "f", "f", "f", "f", "f" >>],
    [kind |-> "timeout", msg |-> << "s", "i", "g", "n", "a", "l", ":", " ", "k", "i", "l", "l", "e",
                                    "d" >>] }

Stderrs == { << >>, << "E", "l", "e", "m", "e", "n", "t", " ", "n", "o", "t", " ", "f",
                       "o", "u", "n", "d", "." >> }

\* (stdout, stderr, err) of one Run
RunOutcomes ==
  [out : Texts, stderr : Stderrs, err : {NilErr} \cup RunErrors]

(***************************************************************************)
(* Client.ListInstalledDistros.                                            *)
(***************************************************************************)
benignIndicators ==
  << << "0", "x", "f", "f", "f", "f", "f", "f", "f", "f" >>,
     << "e", "l", "e", "m", "e", "n", "t", " ", "n", "o", "t", " ", "f",
        "o", "u", "n", "d" >>,
     << "n", "o", " ", "i", "n", "s", "t", "a", "l", "l", "e", "d", " ",
        "d", "i", "s", "t", "r", "i", "b", "u", "t", "i", "o", "n",
        "s" >> >>

\* Mutant: the indicators are looked for in the text as it is.
BothFailedCaseSensitive(stderr, fallbackErrStr, err, fallbackErr) ==
  LET combinedErrMsg == JoinText(<< stderr, fallbackErrStr, err.msg, fallbackErr.msg >>)
  IN IF \E n \in 1..Len(benignIndicators) :
            Contains(combinedErrMsg, benignIndicators[n])
       THEN [distros |-> << >>, isNil |-> FALSE, err |-> "", args |-> << >>]
       ELSE [distros |-> << >>, isNil |-> TRUE,
             err |-> "failed to list WSL distributions: %w | fallback: %v",
             args |-> << err, fallbackErr >>]

\* The decision after both commands failed: an empty list and no error
\* when the lowered texts hold a benign indicator, else a nil list and
\* fmt.Errorf("failed to list WSL distributions: %w | fallback: %v",
\* err, fallbackErr).
BothFailed(stderr, fallbackErrStr, err, fallbackErr) ==
  LET combinedErrMsg == JoinText(<< stderr, fallbackErrStr, err.msg, fallbackErr.msg >>)
      lowered == ToLower(combinedErrMsg)
  IN IF \E n \in 1..Len(benignIndicators) : Contains(lowered, benignIndicators[n])
       THEN [distros |-> << >>, isNil |-> FALSE, err |-> "", args |-> << >>]
       ELSE [distros |-> << >>, isNil |-> TRUE,
             err |-> "failed to list WSL distributions: %w | fallback: %v",
             args |-> << err, fallbackErr >>]

\* output, stderr, err := c.runner.Run("wsl.exe", "-l", "-v")
\* if err == nil { return parseWSLList(output) }
\* The frame after that Run returned r: at ret when the call returns, at fb
\* when the fallback is to be run.
RunPrimary(f0, r, ret, fb) ==
  LET f == [f0 EXCEPT !.Calls = Append(@, "wsl.exe -l -v"),
                      !.stderr = r.stderr, !.lerr = r.err]
      parsed == parseWSLList(r.out)
  IN IF r.err = NilErr
       THEN [f EXCEPT !.pc = ret, !.output = r.out,
                      !.distros = parsed.distros,
                      !.isNil = (parsed.distros = << >>),
                      !.rerr = parsed.err]
       ELSE [f EXCEPT !.pc = fb]

ListPrimary(t) ==
  /\ th[t].pc = "main"
  /\ \E r \in RunOutcomes :
       th' = [th EXCEPT ![t] = RunPrimary(th[t], r, "l_ret", "l_fallback")]
  /\ UNCHANGED <<staged, memoizedPMs, pmMutex, observers>>

\* Mutant: the fallback output is parsed with the verbose parser.
ListFallbackVerbose(t) ==
  /\ th[t].pc = "l_fallback"
  /\ \E r \in RunOutcomes :
       LET f == [th[t] EXCEPT !.Calls = Append(@, "wsl.exe -l"),
                              !.fallbackErrStr = r.stderr, !.fallbackErr = r.err]
           b == BothFailed(f.stderr, f.fallbackErrStr, f.lerr, f.fallbackErr)
       IN th' = [th EXCEPT ![t] =
                   IF r.err = NilErr
                     THEN [f EXCEPT !.pc = "l_ret", !.fallbackOut = r.out,
                                    !.distros = parseWSLList(r.out).distros,
                                    !.isNil = (parseWSLList(r.out).distros = << >>),
                                    !.rerr = ""]
                     ELSE [f EXCEPT !.pc = "l_ret", !.distros = b.distros,
                                    !.isNil = b.isNil, !.rerr = b.err,
                                    !.rerrArgs = b.args]]
  /\ UNCHANGED <<staged, memoizedPMs, pmMutex, observers>>

\* fallbackOut, fallbackErrStr, fallbackErr := c.runner.Run("wsl.exe", "-l")
\* if fallbackErr == nil { return parseWSLListBasic(fallbackOut), nil }
\* else the benign-failure decision.
\* The frame after that Run returned r, at ret.
RunFallback(f0, r, ret) ==
  LET f == [f0 EXCEPT !.Calls = Append(@, "wsl.exe -l"),
                      !.fallbackErrStr = r.stderr, !.fallbackErr = r.err]
      b == BothFailed(f.stderr, f.fallbackErrStr, f.lerr, f.fallbackErr)
  IN IF r.err = NilErr
       THEN [f EXCEPT !.pc = ret, !.fallbackOut = r.out,
                      !.distros = parseWSLListBasic(r.out),
                      !.isNil = (parseWSLListBasic(r.out) = << >>),
                      !.rerr = ""]
       ELSE [f EXCEPT !.pc = ret, !.distros = b.distros,
                      !.isNil = b.isNil, !.rerr = b.err,
                      !.rerrArgs = b.args]

ListFallback(t) ==
  /\ th[t].pc = "l_fallback"
  /\ \E r \in RunOutcomes :
       th' = [th EXCEPT ![t] = RunFallback(th[t], r, "l_ret")]
  /\ UNCHANGED <<staged, memoizedPMs, pmMutex, observers>>

\* ListInstalledDistros has returned to its caller.
ListReturn(t) ==
  /\ th[t].pc = "l_ret"
  /\ th' = [th EXCEPT ![t] = MainFrame(th[t].g)]
  /\ UNCHANGED <<staged, memoizedPMs, pmMutex, observers>>

NextList ==
  \E t \in Threads :
    \/ ListPrimary(t)
    \/ ListFallback(t)
    \/ ListReturn(t)

\* The command's goroutine, which lists the installed distributions
\* whatever guest the command is for.
InitList ==
  /\ InitShared
  /\ th = [t \in Threads |->
             IF t = MainThread THEN MainFrame(0) ELSE OffFrame]

SpecList == InitList /\ [][NextList]_vars

(***************************************************************************)
(* Client.Import, Client.Unregister, Client.Export and the existence check *)
(* Client.IsDistroInstalled they make.                                     *)
(***************************************************************************)

\* The names the operations are called with: registered in the listings
\* below, differing from a registered name by case only, unknown, empty.
ClientNames ==
  { << "U", "b", "-", "2" >>, << "u", "b", "-", "2" >>, << "K", "a", "l", "i" >>, << >> }

\* What the listing commands answer to an existence check: nothing, a
\* verbose table or a legacy list naming Ub-2, with or without an error.
ClientOutcomes ==
  [out : { << >>,
           Lines(<< << " ", " ", "N", "A", "M", "E", " ", " ", "S", "T", "A", "T", "E",
                       " ", " ", "V", "E", "R", "S", "I", "O", "N" >>, << "*", " ", "U", "b", "-", "2", " ", " ", "R", "u", "n", "n", "i",
                                                                          "n", "g", " ", " ", "2" >> >>),
           Lines(<< << "W", "i", "n", "d", "o", "w", "s", " ", "S", "u", "b", "s", "y",
                       "s", "t", "e", "m", " ", "f", "o", "r", " ", "L", "i", "n", "u",
                       "x", " ", "D", "i", "s", "t", "r", "i", "b", "u", "t", "i", "o",
                       "n", "s", ":" >>,
                    << "U", "b", "-", "2", " ", "(", "D", "e", "f", "a", "u", "l", "t",
                       ")" >> >>) },
   stderr : Stderrs,
   err : {NilErr} \cup {e \in RunErrors : e.kind = "generic"}]

\* The results of os.Stat(opts.TarFilePath): nil, an error for which
\* os.IsNotExist holds, any other error.
StatErrs == {"", "not exist", "permission denied"}

\* Import: the input checks, the tar file, the installation directory,
\* then IsDistroInstalled(opts.Name).
Import(t) ==
  /\ th[t].pc = "main"
  /\ \E name \in ClientNames, InstallPath \in {"", "C:/wsl/ub"},
        TarFilePath \in {"", "ub.tar"}, statErr \in StatErrs,
        mkdirOK \in BOOLEAN :
       LET f == [th[t] EXCEPT !.op = "Import", !.name = name,
                              !.InstallPath = InstallPath,
                              !.TarFilePath = TarFilePath,
                              !.statErr = statErr, !.mkdirOK = mkdirOK]
           fail(e) == [f EXCEPT !.pc = "o_ret", !.oerr = e]
       IN th' = [th EXCEPT ![t] =
                   IF name = << >>
                     THEN fail("distribution name cannot be empty")
                   ELSE IF InstallPath = ""
                     THEN fail("installation path cannot be empty")
                   ELSE IF TarFilePath = ""
                     THEN fail("tar file path cannot be empty")
                   ELSE IF statErr = "not exist"
                     THEN fail("tar file does not exist")
                   ELSE IF ~mkdirOK
                     THEN fail("failed to create installation directory")
                   ELSE [f EXCEPT !.pc = "o_list"]]
  /\ UNCHANGED <<staged, memoizedPMs, pmMutex, observers>>

\* Unregister: the name, then IsDistroInstalled(name).
Unregister(t) ==
  /\ th[t].pc = "main"
  /\ \E name \in ClientNames :
       LET f == [th[t] EXCEPT !.op = "Unregister", !.name = name]
       IN th' = [th EXCEPT ![t] =
                   IF name = << >>
                     THEN [f EXCEPT !.pc = "o_ret",
                                    !.oerr = "distribution name cannot be empty"]
                     ELSE [f EXCEPT !.pc = "o_list"]]
  /\ UNCHANGED <<staged, memoizedPMs, pmMutex, observers>>

\* Export: the name and the output path, then IsDistroInstalled(name).
Export(t) ==
  /\ th[t].pc = "main"
  /\ \E name \in ClientNames, outputPath \in {"", "out/ub.tar"},
        mkdirOK \in BOOLEAN :
       LET f == [th[t] EXCEPT !.op = "Export", !.name = name,
                              !.outputPath = outputPath, !.mkdirOK = mkdirOK]
           fail(e) == [f EXCEPT !.pc = "o_ret", !.oerr = e]
       IN th' = [th EXCEPT ![t] =
                   IF name = << >>
                     THEN fail("distribution name cannot be empty")
                   ELSE IF outputPath = ""
                     THEN fail("output path cannot be empty")
                   ELSE [f EXCEPT !.pc = "o_list"]]
  /\ UNCHANGED <<staged, memoizedPMs, pmMutex, observers>>

\* IsDistroInstalled: ListInstalledDistros, its primary command
IsDistroInstalledPrimary(t) ==
  /\ th[t].pc = "o_list"
  /\ \E r \in ClientOutcomes :
       th' = [th EXCEPT ![t] = RunPrimary(th[t], r, "o_listed", "o_fallback")]
  /\ UNCHANGED <<staged, memoizedPMs, pmMutex, observers>>

\* IsDistroInstalled: ListInstalledDistros, its fallback command
IsDistroInstalledFallback(t) ==
  /\ th[t].pc = "o_fallback"
  /\ \E r \in ClientOutcomes :
       th' = [th EXCEPT ![t] = RunFallback(th[t], r, "o_listed")]
  /\ UNCHANGED <<staged, memoizedPMs, pmMutex, observers>>

\* for _, d := range distros { if d.Name == name { return true, nil } }
IsDistroInstalled(distros, name) ==
  \E n \in 1..Len(distros) : distros[n].Name = name

\* Mutant: the names are compared without regard to case.
ImportCheckedFold(t) ==
  /\ th[t].pc = "o_listed" /\ th[t].op = "Import"
  /\ \E absOK \in BOOLEAN :
       LET f == [th[t] EXCEPT !.exists =
                   \E n \in 1..Len(th[t].distros) :
                     ToLower(th[t].distros[n].Name) = ToLower(th[t].name)]
           fail(e) == [f EXCEPT !.pc = "o_ret", !.oerr = e]
       IN th' = [th EXCEPT ![t] =
                   IF f.rerr # ""
                     THEN fail("failed to check if distro exists")
                   ELSE IF f.exists
                     THEN fail("distribution already exists")
                   ELSE IF ~absOK
                     THEN fail("failed to get absolute path")
                   ELSE [f EXCEPT !.pc = "o_run"]]
  /\ UNCHANGED <<staged, memoizedPMs, pmMutex, observers>>

\* Import after IsDistroInstalled: an error of the check, a name that is
\* registered, or a path filepath.Abs cannot resolve, is an error.
ImportChecked(t) ==
  /\ th[t].pc = "o_listed" /\ th[t].op = "Import"
  /\ \E absOK \in BOOLEAN :
       LET f == [th[t] EXCEPT !.exists =
                   th[t].rerr = "" /\ IsDistroInstalled(th[t].distros, th[t].name)]
           fail(e) == [f EXCEPT !.pc = "o_ret", !.oerr = e]
       IN th' = [th EXCEPT ![t] =
                   IF f.rerr # ""
                     THEN fail("failed to check if distro exists")
                   ELSE IF f.exists
                     THEN fail("distribution already exists")
                   ELSE IF ~absOK
                     THEN fail("failed to get absolute path")
                   ELSE [f EXCEPT !.pc = "o_run"]]
  /\ UNCHANGED <<staged, memoizedPMs, pmMutex, observers>>

\* Mutant: a failed existence check does not stop the removal.
UnregisterCheckedLenient(t) ==
  /\ th[t].pc = "o_listed" /\ th[t].op = "Unregister"
  /\ LET f == [th[t] EXCEPT !.exists =
                 th[t].rerr = "" /\ IsDistroInstalled(th[t].distros, th[t].name)]
     IN th' = [th EXCEPT ![t] =
                 IF f.rerr = "" /\ ~f.exists
                   THEN [f EXCEPT !.pc = "o_ret",
                                  !.oerr = "distribution does not exist"]
                   ELSE [f EXCEPT !.pc = "o_run"]]
  /\ UNCHANGED <<staged, memoizedPMs, pmMutex, observers>>

\* Unregister after IsDistroInstalled
UnregisterChecked(t) ==
  /\ th[t].pc = "o_listed" /\ th[t].op = "Unregister"
  /\ LET f == [th[t] EXCEPT !.exists =
                 th[t].rerr = "" /\ IsDistroInstalled(th[t].distros, th[t].name)]
         fail(e) == [f EXCEPT !.pc = "o_ret", !.oerr = e]
     IN th' = [th EXCEPT ![t] =
                 IF f.rerr # ""
                   THEN fail("failed to check if distro exists")
                 ELSE IF ~f.exists
                   THEN fail("distribution does not exist")
                 ELSE [f EXCEPT !.pc = "o_run"]]
  /\ UNCHANGED <<staged, memoizedPMs, pmMutex, observers>>

\* Export after IsDistroInstalled, and os.MkdirAll(outputDir)
ExportChecked(t) ==
  /\ th[t].pc = "o_listed" /\ th[t].op = "Export"
  /\ LET f == [th[t] EXCEPT !.exists =
                 th[t].rerr = "" /\ IsDistroInstalled(th[t].distros, th[t].name)]
         fail(e) == [f EXCEPT !.pc = "o_ret", !.oerr = e]
     IN th' = [th EXCEPT ![t] =
                 IF f.rerr # ""
                   THEN fail("failed to check if distro exists")
                 ELSE IF ~f.exists
                   THEN fail("distribution does not exist")
                 ELSE IF ~f.mkdirOK
                   THEN fail("failed to create output directory")
                 ELSE [f EXCEPT !.pc = "o_run"]]
  /\ UNCHANGED <<staged, memoizedPMs, pmMutex, observers>>

\* The command of an operation, as the runner is given it.
MutatingCommand(op) ==
  CASE op = "Import" -> "wsl.exe --import"
    [] op = "Unregister" -> "wsl.exe --unregister"
    [] op = "Export" -> "wsl.exe --export"

\* Mutant: a failed command is run a second time.
ClientRunRetry(t) ==
  /\ th[t].pc = "o_run"
  /\ \E ok \in BOOLEAN :
       LET f == [th[t] EXCEPT !.Calls = Append(@, MutatingCommand(th[t].op))]
       IN th' = [th EXCEPT ![t] =
                   IF ok THEN [f EXCEPT !.pc = "o_ret", !.oerr = ""]
                   ELSE IF Len(f.Calls) < 4 THEN f
                   ELSE [f EXCEPT !.pc = "o_ret",
                                  !.oerr = "failed to " \o th[t].op]]
  /\ UNCHANGED <<staged, memoizedPMs, pmMutex, observers>>

\* _, stderr, err := c.runner.Run("wsl.exe", "--import" | "--unregister" |
\* "--export", ...); a failure is returned with the command's stderr.
ClientRun(t) ==
  /\ th[t].pc = "o_run"
  /\ \E ok \in BOOLEAN :
       LET f == [th[t] EXCEPT !.Calls = Append(@, MutatingCommand(th[t].op))]
       IN th' = [th EXCEPT ![t] =
                   [f EXCEPT !.pc = "o_ret",
                             !.oerr = IF ok THEN "" ELSE "failed to " \o th[t].op]]
  /\ UNCHANGED <<staged, memoizedPMs, pmMutex, observers>>

\* The operation has returned to the command.
ClientReturn(t) ==
  /\ th[t].pc = "o_ret"
  /\ th' = [th EXCEPT ![t] = MainFrame(th[t].g)]
  /\ UNCHANGED <<staged, memoizedPMs, pmMutex, observers>>

NextClient ==
  \E t \in Threads :
    \/ Import(t)
    \/ Unregister(t)
    \/ Export(t)
    \/ IsDistroInstalledPrimary(t)
    \/ IsDistroInstalledFallback(t)
    \/ ImportChecked(t)
    \/ UnregisterChecked(t)
    \/ ExportChecked(t)
    \/ ClientRun(t)
    \/ ClientReturn(t)

SpecClient == InitList /\ [][NextClient]_vars

(***************************************************************************)
(* runInstall (cmd/install.go): the steps before the import, wsl.Import,   *)
(* then runProvisioningPipeline when playbooks are given. CleanupTempDir   *)
(* and os.Remove only touch local files, which the model does not hold.    *)
(***************************************************************************)
InitInstall ==
  /\ InitShared
  /\ \E g \in Guests :
       th = [t \in Threads |->
               IF t = MainThread
                 THEN [MainFrame(g) EXCEPT !.pc = "ri_start", !.ri = "start"]
                 ELSE OffFrame]

\* runInstall up to the import: the arguments, the name, the path, the temp
\* directory, winget, the download and the extraction; any of them failing
\* is returned as an error.
RunInstallStart(t) ==
  /\ th[t].pc = "ri_start"
  /\ \E ok \in BOOLEAN :
       th' = [th EXCEPT ![t] =
                IF ok THEN [th[t] EXCEPT !.pc = "main", !.ri = "import"]
                ELSE [th[t] EXCEPT !.pc = "ri_ret", !.ri = "ret",
                                   !.rierr = "failed before the import"]]
  /\ UNCHANGED <<staged, memoizedPMs, pmMutex, observers>>

\* if err := wsl.Import(importOpts)
RunInstallImport(t) ==
  /\ th[t].ri = "import"
  /\ Import(t)

\* Mutant: the pipeline's error is returned after the distribution is
\* unregistered.
RunInstallProvisionedRollback(t) ==
  /\ th[t].pc = "p_ret" /\ th[t].ri = "pipeline"
  /\ th' = [th EXCEPT ![t] =
              IF th[t].perr # ""
                THEN [th[t] EXCEPT !.pc = "ri_ret", !.ri = "ret",
                                   !.rierr = th[t].perr,
                                   !.Calls = Append(@, "wsl.exe --unregister")]
                ELSE [th[t] EXCEPT !.pc = "ri_ret", !.ri = "ret", !.rierr = ""]]
  /\ UNCHANGED <<staged, memoizedPMs, pmMutex, observers>>

\* wsl.Import has returned: its error is runInstall's error; without
\* playbooks runInstall returns nil, with playbooks the pipeline is next.
RunInstallImported(t) ==
  /\ th[t].pc = "o_ret" /\ th[t].ri = "import"
  /\ \E playbooks \in BOOLEAN :
       th' = [th EXCEPT ![t] =
                IF th[t].oerr # ""
                  THEN [th[t] EXCEPT !.pc = "ri_ret", !.ri = "ret",
                                     !.rierr = "failed to import distribution"]
                ELSE IF playbooks
                  THEN [MainFrame(th[t].g) EXCEPT !.ri = "pipeline",
                                                  !.Calls = th[t].Calls]
                ELSE [th[t] EXCEPT !.pc = "ri_ret", !.ri = "ret", !.rierr = ""]]
  /\ UNCHANGED <<staged, memoizedPMs, pmMutex, observers>>

\* if len(installPlaybooks) > 0 { err := runProvisioningPipeline(...) }
RunInstallPipeline(t) ==
  /\ th[t].ri = "pipeline"
  /\ PipelineStart(t)
  /\ th'[t].inputs # << >>

\* if err != nil { ...; return nil }; ...; return nil
RunInstallProvisioned(t) ==
  /\ th[t].pc = "p_ret" /\ th[t].ri = "pipeline"
  /\ th' = [th EXCEPT ![t] =
              [th[t] EXCEPT !.pc = "ri_ret", !.ri = "ret", !.rierr = ""]]
  /\ UNCHANGED <<staged, memoizedPMs, pmMutex, observers>>

NextInstall ==
  \E t \in Threads :
    \/ RunInstallStart(t)
    \/ RunInstallImport(t)
    \/ IsDistroInstalledPrimary(t)
    \/ IsDistroInstalledFallback(t)
    \/ ImportChecked(t)
    \/ ClientRun(t)
    \/ RunInstallImported(t)
    \/ RunInstallPipeline(t)
    \/ RunInstallProvisioned(t)
    \/ PipelineLoop(t)
    \/ PipelineRecord(t)
    \/ PipelineAfter(t)
    \/ ExecStat(t)
    \/ ExecEnsured(t)
    \/ ExecCopyRead(t)
    \/ ExecCopyWrite(t)
    \/ ExecRun(t)
    \/ EnsureProbe(t)
    \/ EnsurePresentDetected(t)
    \/ EnsureCollection(t)
    \/ EnsurePost(t)
    \/ EnsureAbsentDetected(t)
    \/ KaliCheck(t)
    \/ KaliStep(t)
    \/ EnsureKaliCheck(t)
    \/ EnsureUpdate(t)
    \/ EnsureFix(t)
    \/ EnsureUpdateRetry(t)
    \/ InstallDetected(t)
    \/ InstallPre(t)
    \/ InstallRun(t)
    \/ InstallPost(t)
    \/ DetectLock(t)
    \/ DetectLookup(t)
    \/ DetectProbe(t)
    \/ DetectWrite(t)
    \/ DetectUnlock(t)

SpecInstall == InitInstall /\ [][NextInstall]_vars

(***************************************************************************)
(* parseWSLList called on its own: the outputs it is given.                *)
(***************************************************************************)

\* What one line of an output is made from: the header, a rule of dashes,
\* a blank line, a line of the legacy form, or a data line with its marker,
\* name, state and version.
Item(kind, star, name, state, version) ==
  [kind |-> kind, star |-> star, name |-> name, state |-> state,
   version |-> version]

DataChoices ==
  { Item("data", TRUE, << "U", "b", "-", "2" >>, << "R", "u", "n", "n", "i", "n", "g" >>, << "2" >>),
    Item("data", FALSE, << "D", "e", "b" >>, << "S", "t", "o", "p", "p", "e", "d" >>, << "1" >>),
    Item("data", FALSE, << "a", "-", "-", "-", "b" >>, << "S", "t", "o", "p", "p", "e", "d" >>, << "2" >>),
    Item("data", FALSE, << "*", "x" >>, << "R", "u", "n", "n", "i", "n", "g" >>, << "2" >>) }

ItemChoices ==
  DataChoices \cup
    { Item(k, FALSE, << >>, << >>, << >>) :
        k \in {"header", "dashes", "blank", "legacy"} }

\* The line of an item, as wsl.exe pads it.
Render(item) ==
  CASE item.kind = "header" -> << " ", " ", "N", "A", "M", "E", " ", " ", "S", "T", "A", "T", "E",
                                  " ", " ", "V", "E", "R", "S", "I", "O", "N" >>
    [] item.kind = "dashes" -> << "-", "-", "-", "-", "-" >>
    [] item.kind = "blank" -> << >>
    [] item.kind = "legacy" -> << "U", "b", "-", "2", " ", "(", "D", "e", "f", "a", "u", "l", "t",
                                  ")" >>
    [] item.kind = "data" ->
         (IF item.star THEN << "*", " " >> ELSE << " ", " " >>)
           \o item.name \o << " ", " " >> \o item.state \o << " ", " " >>
           \o item.version

ItemLists == UNION { [1..n -> ItemChoices] : n \in 0..MaxLines }

\* How the text reaches the parser: as it is, as UTF-16 (a byte-order mark
\* and a null byte after every character), or behind two byte-order marks.
Encodings == {"plain", "wide", "bom2"}

Encode(s, enc) ==
  CASE enc = "plain" -> s
    [] enc = "wide" -> << BOM >> \o Wide(s)
    [] enc = "bom2" -> << BOM, BOM >> \o s

\* The output made of the items, every line ended by a newline.
TextOf(items, enc) ==
  Encode(Lines([n \in 1..Len(items) |-> Render(items[n])]), enc)

\* parseWSLList(output) for an output made of items
ParseCall(t) ==
  /\ th[t].pc = "main"
  /\ \E items \in ItemLists, enc \in Encodings :
       LET x == TextOf(items, enc)
           parsed == parseWSLList(x)
       IN th' = [th EXCEPT ![t] =
                   [th[t] EXCEPT !.pc = "pw_ret", !.pItems = items,
                                 !.pEnc = enc, !.pInput = x,
                                 !.pDistros = parsed.distros,
                                 !.pErr = parsed.err]]
  /\ UNCHANGED <<staged, memoizedPMs, pmMutex, observers>>

\* parseWSLList has returned to its caller.
ParseReturn(t) ==
  /\ th[t].pc = "pw_ret"
  /\ th' = [th EXCEPT ![t] = MainFrame(th[t].g)]
  /\ UNCHANGED <<staged, memoizedPMs, pmMutex, observers>>

NextParse ==
  \E t \in Threads :
    \/ ParseCall(t)
    \/ ParseReturn(t)

SpecParse == InitList /\ [][NextParse]_vars

\* The lines an output of wsl.exe -l is made of: header sentences, names
\* with and without the tag and the asterisk, and lines without a name.
BasicLineChoices ==
  { << "W", "i", "n", "d", "o", "w", "s", " ", "S", "u", "b", "s", "y",
     "s", "t", "e", "m", " ", "f", "o", "r", " ", "L", "i", "n", "u",
     "x", " ", "D", "i", "s", "t", "r", "i", "b", "u", "t", "i", "o",
     "n", "s", ":" >>,
    << "T", "h", "e", " ", "f", "o", "l", "l", "o", "w", "i", "n", "g" >>,
    << "U", "b", "-", "2", " ", "(", "D", "e", "f", "a", "u", "l", "t",
     ")" >>,
    << "D", "e", "b" >>,
    << "*", " ", "D", "e", "b" >>,
    << "*", " ", "U", "b", "-", "2", " ", "(", "D", "e", "f", "a", "u",
     "l", "t", ")" >>,
    << "*" >>,
    << "(", "D", "e", "f", "a", "u", "l", "t", ")" >>,
    << "D", "e", "b", " ", "(", "d", "e", "f", "a", "u", "l", "t", ")" >>,
    << " " >> }

BasicLineLists == UNION { [1..n -> BasicLineChoices] : n \in 0..MaxLines }

\* parseWSLListBasic(output) for an output made of lines
BasicCall(t) ==
  /\ th[t].pc = "main"
  /\ \E ls \in BasicLineLists, enc \in {"plain", "wide"} :
       LET x == Encode(Lines(ls), enc)
       IN th' = [th EXCEPT ![t] =
                   [th[t] EXCEPT !.pc = "pb_ret", !.pItems = ls,
                                 !.pEnc = enc, !.pInput = x,
                                 !.pDistros = parseWSLListBasic(x)]]
  /\ UNCHANGED <<staged, memoizedPMs, pmMutex, observers>>

\* parseWSLListBasic has returned to its caller.
BasicReturn(t) ==
  /\ th[t].pc = "pb_ret"
  /\ th' = [th EXCEPT ![t] = MainFrame(th[t].g)]
  /\ UNCHANGED <<staged, memoizedPMs, pmMutex, observers>>

NextBasic ==
  \E t \in Threads :
    \/ BasicCall(t)
    \/ BasicReturn(t)

SpecBasic == InitList /\ [][NextBasic]_vars

(***************************************************************************)
(* buildAnsibleCommand called on its own: the options it is given.         *)
(***************************************************************************)

\* The keys of ExtraVars (map[string]string): at most MaxVars of them.
VarNames == << "user", "env", "role" >>

\* A map with its entries in an order the range statement can yield them:
\* each key at most once, any order, a value with or without a space.
VarSeqs ==
  LET entry == [k : {VarNames[n] : n \in 1..MaxVars}, v : {"john", "a b"}]
  IN { q \in UNION { [1..n -> entry] : n \in 0..MaxVars } :
         \A a, b \in 1..Len(q) : a # b => q[a].k # q[b].k }

\* The options of a call: no, one or two tags, verbose or not, the
\* variables.
BuildOpts ==
  [Tags : { << >>, << "base" >>, << "base", "dev" >> }, Verbose : BOOLEAN,
   ExtraVars : VarSeqs]

\* buildAnsibleCommand(playbookPath, opts)
BuildCall(t) ==
  /\ th[t].pc = "main"
  /\ \E path \in {wslPlaybookPath, "/mnt/c/site.yml"}, opts \in BuildOpts :
       th' = [th EXCEPT ![t] =
                [th[t] EXCEPT !.pc = "b_ret", !.bPath = path, !.opts = opts,
                              !.bCmd = buildAnsibleCommand(path, opts)]]
  /\ UNCHANGED <<staged, memoizedPMs, pmMutex, observers>>

\* return cmd.String()
BuildReturn(t) ==
  /\ th[t].pc = "b_ret"
  /\ th' = [th EXCEPT ![t] = MainFrame(th[t].g)]
  /\ UNCHANGED <<staged, memoizedPMs, pmMutex, observers>>

NextBuild ==
  \E t \in Threads :
    \/ BuildCall(t)
    \/ BuildReturn(t)

SpecBuild == InitList /\ [][NextBuild]_vars

(***************************************************************************)
(* Properties of detectPackageManager, checked under SpecDetect.           *)
(***************************************************************************)

\* The goroutine is between its Lock and its deferred Unlock.
InDetectBody(t) == th[t].pc \in {"d_lookup", "d_probe", "d_write", "d_unlock"}

\* C2: once a detection of guest g has succeeded, its memo entry stays what
\* that detection returned, whatever is detected for other guests, and every
\* call that takes the lock afterwards returns that same profile without
\* issuing a single detection probe.
C2_DetectionIdempotent ==
  /\ \A g \in Guests :
       firstOK[g] # NilPM =>
         MemoHas(memoizedPMs, g) /\ memoizedPMs[g] = firstOK[g]
  /\ \A t \in Threads :
       th[t].pc = "d_unlock" /\ th[t].known # NilPM =>
         /\ th[t].derr = ""
         /\ th[t].dres = th[t].known
         /\ Len(DetectLog(th[t])) = 0

\* A later call for an already detected guest is about to return, and
\* another guest has been detected as well.
C2_Witness ==
  \E t \in Threads :
    /\ th[t].pc = "d_unlock"
    /\ th[t].known # NilPM
    /\ \E g2 \in Guests : g2 # th[t].g /\ firstOK[g2] # NilPM

\* The detection probes in registry order, as the claim lists them.
C3_ProbeOrder ==
  << "command -v apt-get", "command -v dnf", "command -v yum",
     "command -v zypper", "command -v pacman", "command -v apk" >>

C3_ProfileOrder == << "apt", "dnf", "yum", "zypper", "pacman", "apk" >>

\* C3: a call that missed the memo has probed apt, dnf, yum, zypper, pacman,
\* apk in this order and stopped at the first probe that succeeded; that
\* profile is returned and is the memo entry of the guest, and nothing after
\* it was probed. If all six probes failed the call returns an error naming
\* the guest and the guest has no memo entry.
C3_FirstProbeWins ==
  \A t \in Threads :
    th[t].pc = "d_unlock" /\ th[t].i >= 1 =>
      LET L == DetectLog(th[t])
          n == Len(L)
      IN /\ n >= 1 /\ n <= Len(C3_ProbeOrder)
         /\ \A k \in 1..n : L[k].cmd = C3_ProbeOrder[k]
         /\ \A k \in 1..(n - 1) : ~L[k].ok
         /\ IF th[t].derr = ""
              THEN /\ L[n].ok
                   /\ th[t].dres = n
                   /\ supportedPMs[th[t].dres].name = C3_ProfileOrder[n]
                   /\ MemoHas(memoizedPMs, th[t].g)
                   /\ memoizedPMs[th[t].g] = n
              ELSE /\ n = Len(C3_ProbeOrder)
                   /\ ~L[n].ok
                   /\ th[t].dres = NilPM
                   /\ th[t].derrGuest = th[t].g
                   /\ ~MemoHas(memoizedPMs, th[t].g)

\* A miss on which apt and dnf failed and yum was detected.
C3_Witness ==
  \E t \in Threads :
    /\ th[t].pc = "d_unlock"
    /\ th[t].i >= 1
    /\ th[t].derr = ""
    /\ supportedPMs[th[t].dres].name = "yum"

\* C4: as long as the detections of a guest do not fail, no detection probe
\* is executed twice for that guest, however many goroutines call
\* detectPackageManager for it at once: one caller runs the probe loop and
\* the others return the memoized profile.
C4_NoDuplicateProbes == \A g \in Guests : ~reprobed[g]

\* One goroutine has detected a guest by probing while another one waits at
\* the lock with a call for the same guest.
C4_Witness ==
  \E a, b \in Threads :
    /\ a # b
    /\ th[a].pc = "d_unlock" /\ th[a].derr = "" /\ Len(DetectLog(th[a])) > 0
    /\ th[b].pc = "d_lock" /\ th[b].g = th[a].g

\* C5 as stated: the mutex is not held during the probe loop, so a call for
\* another guest that waits at Lock can take the mutex while a goroutine is
\* running its detection probes.
C5_LockFreeDuringProbes ==
  \A a, b \in Threads :
    (a # b /\ th[a].pc = "d_probe" /\ th[b].pc = "d_lock"
       /\ th[a].g # th[b].g) => pmMutex = 0

\* C5 amended: detections are serialized. The mutex is held from the memo
\* lookup through the whole probe loop until the call returns, so while a
\* call is running its detection probes no other call, for any guest, is
\* past its Lock.
C5_DetectionSerialized ==
  \A a \in Threads :
    th[a].pc = "d_probe" =>
      /\ pmMutex = a
      /\ \A b \in Threads : b # a => ~InDetectBody(b)

\* A call for one guest is probing while a call for another guest waits.
C5_Witness ==
  \E a, b \in Threads :
    /\ a # b
    /\ th[a].pc = "d_probe" /\ th[b].pc = "d_lock"
    /\ th[a].g # th[b].g

\* C6: a goroutine that is about to read the memo (the lookup) or to write
\* it (the store after a successful probe) holds pmMutex.
C6_MemoUnderLock ==
  \A t \in Threads :
    th[t].pc \in {"d_lookup", "d_write"} => pmMutex = t

\* A goroutine is about to write the memo while another waits at the lock.
C6_Witness ==
  \E a, b \in Threads :
    /\ a # b
    /\ th[a].pc = "d_write" /\ pmMutex = a
    /\ th[b].pc = "d_lock"

(***************************************************************************)
(* Properties of ensurePackage, checked under SpecEnsure.                  *)
(***************************************************************************)

\* The kinds of the entries of log L, in order.
Kinds(L) == [n \in 1..Len(L) |-> L[n].kind]

\* The command texts of the entries of log L, in order.
Cmds(L) == [n \in 1..Len(L) |-> L[n].cmd]

\* Every entry of log L returned without error.
AllOK(L) == \A n \in 1..Len(L) : L[n].ok

\* No entry of log L returned without error.
NoneOK(L) == \A n \in 1..Len(L) : ~L[n].ok

\* Both of two successive ensurePackage calls have returned and both found
\* the command present.
BothPresent(f) == f.pc = "t_done" /\ f.first.present /\ f.present

\* C7 as stated: when the probed command already resolves, two successive
\* ensurePackage calls both return ok, and each issues at most one presence
\* probe and no installing command of any kind, whatever the package and
\* the detected profile.
C7_PresentNeverInstalls ==
  \A t \in Threads :
    LET f == th[t]
    IN BothPresent(f) =>
         /\ f.first.err = "" /\ f.eerr = ""
         /\ f.first.probes <= 1
         /\ Len(OfKinds(EnsureLog(f), {"presence"})) <= 1
         /\ f.first.installs = 0
         /\ OfKinds(EnsureLog(f), InstallKinds) = << >>

\* The post-install steps ensurePackage runs for a present ansible: only on
\* the zypper profile and only after a failed collection check; they are
\* the profile's steps in order up to the first failure, and the call
\* fails exactly when one of them fails.
PostStepsJustified(f) ==
  LET L    == EnsureLog(f)
      post == OfKinds(L, {"post"})
      coll == OfKinds(L, {"collection"})
  IN /\ Len(coll) <= 1
     /\ (coll # << >>) =>
          /\ f.packageName = "ansible"
          /\ f.pm # NilPM /\ supportedPMs[f.pm].name = "zypper"
     /\ (post # << >>) <=> (coll # << >> /\ ~coll[1].ok)
     /\ (post # << >>) =>
          /\ Len(post) <= Len(supportedPMs[f.pm].ansiblePostInstallCmds)
          /\ Cmds(post) =
               SubSeq(supportedPMs[f.pm].ansiblePostInstallCmds, 1, Len(post))
          /\ AllOK(SubSeq(post, 1, Len(post) - 1))
          /\ (f.eerr = "") <=>
               /\ Len(post) = Len(supportedPMs[f.pm].ansiblePostInstallCmds)
               /\ AllOK(post)
     /\ (post = << >>) => f.eerr = ""

\* C7, amended: an ensurePackage call that finds the command present
\* issues exactly one presence probe and no update, repair, pre-install or
\* install command; besides detection probes it issues commands only for
\* ansible on the zypper profile (the collection check and, when that
\* fails, the post-install steps), and it returns ok unless one of those
\* post-install steps fails. For git both successive calls issue the
\* presence probe alone and return ok.
C7_PresentOnlyPostSteps ==
  \A t \in Threads :
    LET f == th[t]
        L == EnsureLog(f)
    IN /\ (f.edone /\ f.present) =>
            /\ Len(OfKinds(L, {"presence"})) = 1
            /\ L[1].kind = "presence" /\ L[1].ok
            /\ \A n \in 1..Len(L) :
                 L[n].kind \in {"presence", "detect", "collection", "post"}
            /\ PostStepsJustified(f)
       /\ BothPresent(f) =>
            /\ f.first.probes = 1
            /\ f.first.others = 0
            /\ (f.first.installs > 0 \/ f.first.err # "") =>
                 f.packageName = "ansible"
            /\ (f.first.err # "") => f.first.installs > 0
            /\ (f.packageName = "git") =>
                 /\ f.first.err = "" /\ f.eerr = ""
                 /\ Len(L) = 1

\* Two successive calls both found ansible present, and the second one ran
\* the zypper post-install steps after a failed collection check.
C7_Witness ==
  \E t \in Threads :
    /\ BothPresent(th[t])
    /\ th[t].first.err = ""
    /\ Len(OfKinds(EnsureLog(th[t]), {"post"})) = 2
    /\ th[t].eerr = ""

\* The case of C8: ensurePackage(g, "git", "git") has returned, the presence
\* probe failed, the apt profile was detected, both fingerprint probes
\* found no Kali, and every other command succeeded.
GitOnAptAllSucceed(f) ==
  LET L == EnsureLog(f)
  IN /\ f.edone /\ ~f.present
     /\ f.commandName = "git" /\ f.packageName = "git"
     /\ f.pm # NilPM /\ supportedPMs[f.pm].name = "apt"
     /\ NoneOK(OfKinds(L, {"kali"}))
     /\ AllOK(OfKinds(L, {"detect", "update", "fix", "pre", "install", "post"}))

\* C8 as stated: in that case the pre-install, update and install
\* commands are issued in the order pre-install, update, install.
C8_PreUpdateInstall ==
  \A t \in Threads :
    GitOnAptAllSucceed(th[t]) =>
      Kinds(OfKinds(EnsureLog(th[t]), {"pre", "update", "install"}))
        = << "pre", "update", "install" >>

\* C8, amended: in that case the commands after the presence probe and the
\* detection are the two fingerprint probes, one update command, the one
\* pre-install step (python3-apt) and one install command for git, in the
\* order update, pre-install, install; the call returns ok.
C8_UpdatePreInstall ==
  \A t \in Threads :
    LET f == th[t]
        L == EnsureLog(f)
        A == OfKinds(L, {"kali", "kali-backup", "kali-sources", "kali-key",
                         "kali-update", "kali-gnupg", "update", "fix",
                         "pre", "install", "post", "collection"})
    IN GitOnAptAllSucceed(f) =>
         /\ Kinds(A) = << "kali", "kali", "update", "pre", "install" >>
         /\ Cmds(SubSeq(A, 3, 5)) =
              << "sudo apt-get update",
                 "sudo apt-get install -y python3-apt",
                 "sudo apt-get install -y git" >>
         /\ Len(OfKinds(L, {"presence"})) = 1
         /\ Kinds(OfKinds(L, {"detect"})) \in {<< >>, << "detect" >>}
         /\ f.eerr = ""

\* ensurePackage(g, "git", "git") returned after detecting apt by its
\* probe on a guest that is not Kali, with every command succeeding.
C8_Witness ==
  \E t \in Threads :
    /\ GitOnAptAllSucceed(th[t])
    /\ Len(OfKinds(EnsureLog(th[t]), {"detect"})) = 1
    /\ Len(OfKinds(EnsureLog(th[t]), {"install"})) = 1

\* The case of C9: the call detected apt and no fingerprint probe it has
\* issued found Kali.
AptNotKali(f) ==
  /\ f.pc \notin {"main", "off", "idle"}
  /\ f.pm # NilPM /\ supportedPMs[f.pm].name = "apt"
  /\ ~f.present
  /\ NoneOK(OfKinds(EnsureLog(f), {"kali"}))

\* The entries of log L whose command text is cmd.
RECURSIVE OfCmd(_, _)
OfCmd(L, cmd) ==
  IF Len(L) = 0 THEN << >>
  ELSE IF Head(L).cmd = cmd THEN << Head(L) >> \o OfCmd(Tail(L), cmd)
  ELSE OfCmd(Tail(L), cmd)

\* C9: on an apt guest that is not Kali, a failed first update is followed
\* by the corrective command once, whatever its result, and then by the
\* update once more; a failed retry makes ensurePackage return an error
\* with no pre-install or install command issued; the update command is
\* never issued more than twice in one call.
C9_UpdateRetriedOnce ==
  \A t \in Threads :
    LET f == th[t]
        L == EnsureLog(f)
        U == OfKinds(L, {"update", "fix", "pre", "install"})
    IN AptNotKali(f) =>
         /\ Len(OfCmd(L, supportedPMs[f.pm].updateCmd)) <= 2
         /\ Len(OfKinds(L, {"fix"})) <= 1
         /\ (U # << >>) => U[1].kind = "update"
         /\ (U # << >> /\ U[1].ok) =>
              /\ Len(OfKinds(L, {"update"})) = 1
              /\ OfKinds(L, {"fix"}) = << >>
         /\ (U # << >> /\ ~U[1].ok) =>
              /\ Len(U) >= 2 => U[2].kind = "fix"
              /\ Len(U) >= 3 => U[3].kind = "update"
              /\ f.edone => Len(U) >= 3
              /\ (Len(U) >= 3 /\ ~U[3].ok) =>
                   /\ Len(U) = 3
                   /\ f.edone /\ f.eerr # ""
                   /\ OfKinds(L, {"pre", "install"}) = << >>
              /\ (Len(U) >= 3 /\ U[3].ok /\ f.edone) => Len(U) >= 4

\* On an apt guest that is not Kali the first update failed, the
\* corrective command failed too, the retry failed and ensurePackage
\* returned its error.
C9_Witness ==
  \E t \in Threads :
    /\ AptNotKali(th[t])
    /\ th[t].edone
    /\ Kinds(OfKinds(EnsureLog(th[t]), {"update", "fix"}))
         = << "update", "fix", "update" >>
    /\ NoneOK(OfKinds(EnsureLog(th[t]), {"update", "fix"}))
    /\ th[t].eerr # ""

(***************************************************************************)
(* Properties of runProvisioningPipeline, checked under Spec.              *)
(***************************************************************************)

\* The pipeline's loop is over: it ran to the end or broke off.
LoopOver(f) == f.pc = "p_after" \/ (f.pc = "p_ret" /\ f.looped)

\* ExecutePlaybook is running, or has just returned, for playbook idx.
InExecute(f) ==
  f.pc \in {"x_stat", "x_ensured", "x_read", "x_write", "x_run", "x_ret",
            "e_probe", "e_present", "e_collection", "e_post", "e_absent",
            "k_check", "k_step", "e_kali", "e_update", "e_fix", "e_retry",
            "i_detected", "i_pre", "i_install", "i_post",
            "d_lock", "d_lookup", "d_probe", "d_write", "d_unlock"}
    /\ f.idx >= 1

\* C1: when the loop is over with k records, the records are those of the
\* first k resolved playbooks in input order, all 'success' except that the
\* k-th is 'failed' exactly when its ExecutePlaybook call failed; a
\* 'success' k-th record means k = n; ExecutePlaybook was invoked for the
\* first k playbooks only, once each and in order, and no external command
\* was issued for a later one. While playbook idx is executed, the records
\* are idx-1 'success' records.
C1_PipelineAbort ==
  \A t \in Threads :
    LET f == th[t]
        n == Len(f.playbookPaths)
        k == Len(f.Results)
    IN /\ LoopOver(f) =>
            /\ 1 <= k /\ k <= n
            /\ \A m \in 1..k :
                 /\ f.Results[m].PlaybookName = Base(f.playbookPaths[m])
                 /\ m < k => f.Results[m].Status = "success"
            /\ f.Results[k].Status = IF f.xerr # "" THEN "failed" ELSE "success"
            /\ f.Results[k].Status = "success" => k = n
            /\ SuccessCount(f.Results)
                 = IF HasFailures(f.Results) THEN k - 1 ELSE n
            /\ f.execCalls = SubSeq(f.playbookPaths, 1, k)
            /\ f.touched \subseteq 1..k
       /\ InExecute(f) =>
            /\ k = f.idx - 1
            /\ ~HasFailures(f.Results)
            /\ f.execCalls = SubSeq(f.playbookPaths, 1, f.idx)
            /\ f.touched \subseteq 1..f.idx

\* Of three playbooks the first succeeded and the second failed after
\* commands were issued for it: two records, the third never touched.
C1_Witness ==
  \E t \in Threads :
    /\ LoopOver(th[t])
    /\ Len(th[t].playbookPaths) = 3
    /\ Len(th[t].Results) = 2
    /\ th[t].Results[2].Status = "failed"
    /\ th[t].touched = {1, 2}

(***************************************************************************)
(* Properties of ListInstalledDistros, checked under SpecList.             *)
(***************************************************************************)

\* C10: the primary command wsl.exe -l -v is run first. If it returns no
\* error it is the only command run and the result is parseWSLList of its
\* output. If it returns an error of any kind, the fallback wsl.exe -l is
\* run after it, exactly once, and when that returns no error the result
\* is parseWSLListBasic of the fallback output, with a nil error.
C10_PrimaryThenFallback ==
  \A t \in Threads :
    LET f == th[t]
    IN /\ f.pc = "l_fallback" =>
            f.Calls = << "wsl.exe -l -v" >> /\ f.lerr # NilErr
       /\ f.pc = "l_ret" =>
            IF f.lerr = NilErr
              THEN /\ f.Calls = << "wsl.exe -l -v" >>
                   /\ LET parsed == parseWSLList(f.output)
                      IN f.distros = parsed.distros /\ f.rerr = parsed.err
              ELSE /\ f.Calls = << "wsl.exe -l -v", "wsl.exe -l" >>
                   /\ f.fallbackErr = NilErr =>
                        /\ f.distros = parseWSLListBasic(f.fallbackOut)
                        /\ f.rerr = ""

\* The primary command timed out and the fallback listed the header line
\* and "Ub-2 (Default)": the result is the one default record Ub-2, with
\* no state and no version.
C10_Witness ==
  \E t \in Threads :
    /\ th[t].pc = "l_ret"
    /\ th[t].lerr.kind = "timeout"
    /\ th[t].fallbackErr = NilErr
    /\ Len(Split(th[t].fallbackOut)) = 3
    /\ th[t].distros =
         << InstalledDistro(<< "U", "b", "-", "2" >>, << >>, << >>, TRUE) >>
    /\ th[t].rerr = ""

\* Both listing commands have failed and ListInstalledDistros has returned.
BothCommandsFailed(f) ==
  f.pc = "l_ret" /\ f.lerr # NilErr /\ f.fallbackErr # NilErr

\* One of the two stderr texts or of the two error messages holds, in
\* lower case, one of "0xffffffff", "element not found", "no installed
\* distributions".
BenignFailure(f) ==
  \E part \in {f.stderr, f.fallbackErrStr, f.lerr.msg, f.fallbackErr.msg} :
    \/ Contains(ToLower(part),
                << "0", "x", "f", "f", "f", "f", "f", "f", "f", "f" >>)
    \/ Contains(ToLower(part),
                << "e", "l", "e", "m", "e", "n", "t", " ", "n", "o", "t", " ",
                   "f", "o", "u", "n", "d" >>)
    \/ Contains(ToLower(part),
                << "n", "o", " ", "i", "n", "s", "t", "a", "l", "l", "e", "d", " ",
                   "d", "i", "s", "t", "r", "i", "b", "u", "t", "i", "o", "n", "s" >>)

\* C11: when both listing commands have failed, the result is an empty,
\* non-nil list with a nil error exactly when the lowered stderr texts and
\* error messages hold a benign indicator; otherwise it is a nil list with
\* an error built from the primary error and the fallback error.
C11_BenignOrCombinedError ==
  \A t \in Threads :
    LET f == th[t]
    IN BothCommandsFailed(f) =>
         /\ f.Calls = << "wsl.exe -l -v", "wsl.exe -l" >>
         /\ f.distros = << >>
         /\ BenignFailure(f) <=> (~f.isNil /\ f.rerr = "")
         /\ ~BenignFailure(f) =>
              /\ f.isNil
              /\ f.rerr # ""
              /\ f.rerrArgs = << f.lerr, f.fallbackErr >>

\* Both commands failed with "exit status 1" and the only benign text is
\* the fallback's stderr "Element not found.": an empty list, no error.
C11_Witness ==
  \E t \in Threads :
    /\ BothCommandsFailed(th[t])
    /\ th[t].stderr = << >>
    /\ th[t].fallbackErrStr # << >>
    /\ th[t].lerr.msg = th[t].fallbackErr.msg
    /\ th[t].lerr.msg[Len(th[t].lerr.msg)] = "1"
    /\ ~th[t].isNil /\ th[t].rerr = ""

(***************************************************************************)
(* parseWSLList on well-formed verbose listings.                           *)
(***************************************************************************)

\* A well-formed verbose listing: data lines only, after at most one
\* leading header line.
IsData(item) == item.kind = "data"

DataPart(items) ==
  IF Len(items) > 0 /\ items[1].kind = "header" THEN Tail(items) ELSE items

WellFormedListing(items) ==
  \A n \in 1..Len(DataPart(items)) : IsData(DataPart(items)[n])

\* One record per data line, in order, with the line's name, state and
\* version, Default exactly for the lines that carry the marker.
RecordsOf(items) ==
  LET data == DataPart(items)
  IN [n \in 1..Len(data) |->
        InstalledDistro(data[n].name, data[n].state, data[n].version,
                        data[n].star)]

\* A line the header scan of parseWSLList stops at.
HasHeaderMarker(line) ==
  \/ Contains(line, << "N", "A", "M", "E" >>)
  \/ Contains(line, << "-", "-", "-" >>)

\* The names for which the record of a line is the line's own: the name
\* does not begin with the marker character and, in a listing without a
\* header line, does not hold a header marker.
PlainNames(items) ==
  \A n \in 1..Len(DataPart(items)) :
    LET d == DataPart(items)[n]
    IN /\ Head(d.name) # "*"
       /\ (DataPart(items) = items => ~HasHeaderMarker(d.name))

\* C12 as stated: for every well-formed verbose listing (N data lines,
\* with or without a leading header line) parseWSLList returns exactly the
\* N records of the lines, in order, for any name made of non-whitespace
\* characters.
C12_AnyNameParsed ==
  \A t \in Threads :
    LET f == th[t]
    IN f.pc = "pw_ret" /\ f.pEnc = "plain" /\ WellFormedListing(f.pItems)
         => f.pDistros = RecordsOf(f.pItems)

\* C12, amended: for every well-formed verbose listing whose names do not
\* begin with '*' and, when the listing has no header line, do not contain
\* "NAME" or "---", parseWSLList returns exactly the N records of the
\* lines, in order.
C12_PlainNamesParsed ==
  \A t \in Threads :
    LET f == th[t]
    IN (/\ f.pc = "pw_ret"
        /\ f.pEnc = "plain"
        /\ WellFormedListing(f.pItems)
        /\ PlainNames(f.pItems))
         => f.pDistros = RecordsOf(f.pItems)

\* A listing of two data lines, the first one marked, has been parsed into
\* its two records, in order.
C12_Witness ==
  \E t \in Threads :
    LET f == th[t]
    IN /\ f.pc = "pw_ret"
       /\ f.pEnc = "plain"
       /\ WellFormedListing(f.pItems)
       /\ PlainNames(f.pItems)
       /\ Len(f.pItems) = 2
       /\ f.pItems[1].star
       /\ ~f.pItems[2].star
       /\ Len(f.pDistros) = 2
       /\ f.pDistros[1].Name = f.pItems[1].name
       /\ f.pDistros[1].Default
       /\ f.pDistros[2].Name = f.pItems[2].name
       /\ ~f.pDistros[2].Default

(***************************************************************************)
(* parseWSLList and the cleaning of its input.                             *)
(***************************************************************************)

\* The cleaning of parseWSLList as a function of its own: every null byte
\* removed, then one leading byte-order mark.
stripBOMAndNulls(x) == TrimPrefix(RemoveChar(x, NUL), << BOM >>)

\* C13 as stated: for any input x, parsing x gives the records that
\* parsing the cleaned x gives.
C13_StripInsensitive ==
  \A t \in Threads :
    LET f == th[t]
    IN f.pc = "pw_ret"
         => f.pDistros = parseWSLList(stripBOMAndNulls(f.pInput)).distros

\* The same on the inputs that carry at most one leading byte-order mark:
\* null bytes anywhere and one mark in front change nothing.
C13_SingleMarkInsensitive ==
  \A t \in Threads :
    LET f == th[t]
    IN f.pc = "pw_ret" /\ f.pEnc \in {"plain", "wide"}
         => /\ f.pDistros = parseWSLList(stripBOMAndNulls(f.pInput)).distros
            /\ f.pDistros = parseWSLList(TextOf(f.pItems, "plain")).distros

(***************************************************************************)
(* parseWSLList on lines that match no token shape.                        *)
(***************************************************************************)

\* The items whose line matches no token shape: blank, header, dashes,
\* legacy form.
NonMatching(item) == ~IsData(item)

RemoveAt(items, i) == SubSeq(items, 1, i - 1) \o SubSeq(items, i + 1, Len(items))

\* The index of the first item whose line the header scan stops at, or 0.
FirstMarker(items) ==
  LET isMarker(n) == HasHeaderMarker(Render(items[n]))
  IN IF \E n \in 1..Len(items) : isMarker(n)
       THEN CHOOSE n \in 1..Len(items) :
              isMarker(n) /\ \A q \in 1..(n - 1) : ~isMarker(q)
       ELSE 0

OnlyHeaders(items) ==
  \A n \in 1..Len(items) : items[n].kind \in {"header", "dashes"}

\* C14 as stated: parseWSLList returns no error for any input; a line that
\* matches no token shape (blank and dash lines included) is skipped
\* without affecting the records of the other lines: the output without
\* that line parses to the same records; an output of header and separator
\* lines only, or an empty one, gives no record.
C14_SkippedLinesInert ==
  \A t \in Threads :
    LET f == th[t]
    IN f.pc = "pw_ret"
         => /\ f.pErr = ""
            /\ f.pEnc \in {"plain", "wide"}
                 => \A i \in 1..Len(f.pItems) :
                      NonMatching(f.pItems[i])
                        => f.pDistros
                             = parseWSLList(TextOf(RemoveAt(f.pItems, i),
                                                   f.pEnc)).distros
            /\ OnlyHeaders(f.pItems) => f.pDistros = << >>

\* C14, amended: parseWSLList returns no error for any input; a line that
\* matches no token shape and is not the first line holding "NAME" or
\* "---" is skipped without affecting the records of the other lines; the
\* first line holding "NAME" or "---" ends the header: exactly the data
\* lines after it give a record; an output of header and separator lines
\* only, or an empty one, gives no record.
C14_SkippedExceptHeader ==
  \A t \in Threads :
    LET f == th[t]
        k == FirstMarker(f.pItems)
    IN f.pc = "pw_ret"
         => /\ f.pErr = ""
            /\ f.pEnc \in {"plain", "wide"}
                 => /\ \A i \in 1..Len(f.pItems) :
                         NonMatching(f.pItems[i]) /\ i # k
                           => f.pDistros
                                = parseWSLList(TextOf(RemoveAt(f.pItems, i),
                                                      f.pEnc)).distros
                    /\ Len(f.pDistros)
                         = Cardinality({n \in (k + 1)..Len(f.pItems) :
                                          IsData(f.pItems[n])})
            /\ OnlyHeaders(f.pItems) => f.pDistros = << >>

\* A listing of a data line and a line that matches nothing, in either
\* order, has been parsed into the one record of the data line.
C14_Witness ==
  \E t \in Threads :
    LET f == th[t]
    IN /\ f.pc = "pw_ret"
       /\ Len(f.pItems) = 2
       /\ \E i \in 1..2 :
            /\ f.pItems[i].kind \in {"blank", "legacy"}
            /\ IsData(f.pItems[3 - i])
            /\ f.pDistros = parseWSLList(TextOf(RemoveAt(f.pItems, i),
                                                f.pEnc)).distros
       /\ Len(f.pDistros) = 1
       /\ f.pErr = ""

(***************************************************************************)
(* Properties of ExecutePlaybook, checked under Spec.                      *)
(***************************************************************************)

\* The positions of log L that hold a command of kind k.
At(L, k) == {n \in 1..Len(L) : L[n].kind = k}

\* C15: ExecutePlaybook checks the playbook file first, before any guest
\* command; then come the commands of ensurePackage, then the copy to the
\* guest path, then the playbook command, each at most once. A failed step
\* returns an error and is the last step: nothing is issued when the file is
\* missing, no copy after a failed ensurePackage, no playbook command after
\* a failed copy; the playbook command is issued only after ensurePackage
\* and the copy both succeeded in this call.
C15_ExecuteOrder ==
  \A t \in Threads :
    LET f == th[t]
        L == f.log
        e == IF f.edone THEN f.eend ELSE Len(L)
    IN InExecute(f) =>
         /\ f.pc = "x_stat" => L = << >>
         /\ \A n \in 1..e : L[n].kind \notin {"copy", "run"}
         /\ At(L, "copy") \subseteq {e + 1}
         /\ At(L, "run") \subseteq {e + 2}
         /\ Len(L) <= e + 2
         /\ At(L, "copy") # {} => f.edone /\ f.eerr = ""
         /\ At(L, "run") # {} =>
              /\ f.edone /\ f.eerr = ""
              /\ L[e + 1].kind = "copy" /\ L[e + 1].ok
              /\ f.pc = "x_ret"
         /\ f.pc = "x_ret" =>
              /\ f.xerr = "playbook file not found" => L = << >>
              /\ f.edone /\ f.eerr # "" => f.xerr # "" /\ Len(L) = e
              /\ At(L, "copy") # {} /\ ~L[e + 1].ok
                   => f.xerr # "" /\ Len(L) = e + 1
              /\ f.xerr = "" <=> (At(L, "run") # {} /\ L[Len(L)].ok)

\* ExecutePlaybook has returned ok after the commands of ensurePackage, the
\* copy and the playbook command.
C15_Witness ==
  \E t \in Threads :
    LET f == th[t]
    IN /\ InExecute(f)
       /\ f.pc = "x_ret"
       /\ f.xerr = ""
       /\ f.eend >= 1
       /\ Len(f.log) = f.eend + 2
       /\ f.log[f.eend + 1].kind = "copy"
       /\ f.log[f.eend + 2].kind = "run"

(***************************************************************************)
(* Properties of buildAnsibleCommand, checked under SpecBuild.             *)
(***************************************************************************)

\* The lists allowed after --extra-vars: key=value for every entry of the
\* map exactly once, in any order, single spaces between them.
VarLists(opts) ==
  LET S == Range(opts.ExtraVars)
  IN { Join([n \in DOMAIN q |-> q[n].k \o "=" \o q[n].v], " ") :
         q \in { r \in [1..Cardinality(S) -> S] :
                   \A e \in S : \E n \in DOMAIN r : r[n] = e } }

\* C16: buildAnsibleCommand returns the fixed base invocation with the
\* guest path, then ' --tags ' and the comma-joined tags exactly when tags
\* are given, then ' -vvv' exactly when verbose is set, then
\* ' --extra-vars ' and one single-quoted list exactly when variables are
\* given; the list holds key=value for every key exactly once, separated by
\* single spaces, in any order.
C16_CommandShape ==
  \A t \in Threads :
    LET f == th[t]
        base == "ansible-playbook " \o f.bPath
                  \o " --connection=local -i localhost,"
        tags == IF f.opts.Tags = << >> THEN ""
                ELSE " --tags " \o Join(f.opts.Tags, ",")
        verbose == IF f.opts.Verbose THEN " -vvv" ELSE ""
    IN f.pc = "b_ret" =>
         IF f.opts.ExtraVars = << >>
           THEN f.bCmd = base \o tags \o verbose
           ELSE f.bCmd \in { base \o tags \o verbose \o " --extra-vars '"
                               \o list \o "'" : list \in VarLists(f.opts) }

\* A command has been built from two tags, the verbosity flag and two
\* variables, the second key of the model listed first.
C16_Witness ==
  \E t \in Threads :
    LET f == th[t]
    IN /\ f.pc = "b_ret"
       /\ f.bPath = wslPlaybookPath
       /\ Len(f.opts.Tags) = 2
       /\ f.opts.Verbose
       /\ Len(f.opts.ExtraVars) = 2
       /\ f.opts.ExtraVars[1].k = VarNames[2]
       /\ f.bCmd = "ansible-playbook /tmp/autowsl-playbook.yml"
                     \o " --connection=local -i localhost, --tags base,dev -vvv"
                     \o " --extra-vars 'env=" \o f.opts.ExtraVars[1].v
                     \o " user=" \o f.opts.ExtraVars[2].v \o "'"

(***************************************************************************)
(* ensurePackage for a present ansible, checked under SpecEnsure.          *)
(***************************************************************************)

\* The case of C17: ensurePackage has returned, the presence probe
\* succeeded, the package is ansible and detection returned a profile that
\* declares post-install steps.
PresentWithPostSteps(f) ==
  /\ f.edone /\ f.present
  /\ f.packageName = "ansible"
  /\ f.derr = "" /\ f.dres # NilPM
  /\ Len(supportedPMs[f.dres].ansiblePostInstallCmds) > 0

\* C17: in that case ensurePackage runs the collection check, once, after
\* the presence probe; it runs post-install steps exactly when the check
\* reports the collection missing, then the profile's steps in declaration
\* order up to the first failing one, and it returns an error exactly when
\* a step failed; this holds for each of two successive calls.
C17_CollectionCheck ==
  \A t \in Threads :
    LET f == th[t]
        L == EnsureLog(f)
        steps == supportedPMs[f.dres].ansiblePostInstallCmds
        coll == At(L, "collection")
        post == OfKinds(L, {"post"})
    IN PresentWithPostSteps(f) =>
         /\ Cardinality(coll) = 1
         /\ \A c \in coll :
              /\ c > 1 /\ L[1].kind = "presence"
              /\ \A n \in 1..Len(L) : L[n].kind = "post" <=> n > c
              /\ (post # << >>) <=> ~L[c].ok
         /\ Len(post) <= Len(steps)
         /\ Cmds(post) = SubSeq(steps, 1, Len(post))
         /\ AllOK(SubSeq(post, 1, Len(post) - 1))
         /\ (post # << >> /\ AllOK(post)) => Len(post) = Len(steps)
         /\ (f.eerr # "") <=> (post # << >> /\ ~post[Len(post)].ok)
         /\ (f.pc = "t_done" /\ f.first.present) => f.first.others = 0

\* ansible was present on a profile with two post-install steps, the
\* collection was missing and the first step failed: the call returned the
\* error without the second step.
C17_Witness ==
  \E t \in Threads :
    LET f == th[t]
        post == OfKinds(EnsureLog(f), {"post"})
    IN /\ PresentWithPostSteps(f)
       /\ Len(supportedPMs[f.dres].ansiblePostInstallCmds) = 2
       /\ Len(post) = 1
       /\ ~post[1].ok
       /\ f.eerr # ""

(***************************************************************************)
(* fixKaliRepositories, checked under SpecEnsure.                          *)
(***************************************************************************)

\* The kinds of the repair steps, in the order of the code.
KaliKinds == Kinds(KaliSteps)

\* The repair steps issued by the current ensurePackage call, in order.
KaliLog(f) == OfKinds(EnsureLog(f), Range(KaliKinds))

\* fixKaliRepositories has been called and is not running any more.
KaliOver(f) ==
  /\ At(EnsureLog(f), "kali") # {}
  /\ f.pc \notin {"k_check", "k_step"}

\* The first fingerprint probe of the call, the one of fixKaliRepositories,
\* found no Kali.
KaliNoMatch(f) ==
  LET L == EnsureLog(f)
  IN \E c \in At(L, "kali") :
       (\A n \in At(L, "kali") : c <= n) /\ ~L[c].ok

\* C18: when the fingerprint probe of fixKaliRepositories does not match,
\* the function issues the probe and nothing else, changes nothing, and
\* returns ok: the step from the probe adds the probe to the commands
\* issued and hands control back to ensurePackage without an error, all the
\* rest is unchanged, and no repair step is ever issued in that call.
C18_NoMatchNoEffect ==
  /\ [](\A t \in Threads : KaliNoMatch(th[t]) => KaliLog(th[t]) = << >>)
  /\ [][\A t \in Threads :
          (th[t].pc = "k_check" /\ th'[t] # th[t]
             /\ ~th'[t].log[Len(th'[t].log)].ok)
            => /\ th'[t] = [th[t] EXCEPT
                              !.pc = "e_kali",
                              !.log = Append(@, LogEntry("kali",
                                        "grep -i kali /etc/os-release", FALSE)),
                              !.touched = @ \cup {th[t].idx}]
               /\ th'[t].eerr = "" /\ ~th'[t].edone
               /\ UNCHANGED <<staged, memoizedPMs, pmMutex, observers>>
               /\ \A u \in Threads \ {t} : th'[u] = th[u]]_vars

\* fixKaliRepositories has returned after a probe that found no Kali.
C18_Witness ==
  \E t \in Threads :
    LET f == th[t]
    IN /\ f.pc = "e_kali"
       /\ KaliNoMatch(f)
       /\ f.log[Len(f.log)].kind = "kali"
       /\ f.eerr = ""

\* C19: when the fingerprint probe matches, the repair steps are issued
\* right after it in the order backup, sources rewrite, key fetch, index
\* refresh, key-management install. A failed backup does not stop the
\* sequence; a failure of any later step is the last command of the call,
\* which returns the error naming that step; without such a failure all
\* five steps are issued.
C19_RepairOrder ==
  \A t \in Threads :
    LET f == th[t]
        L == EnsureLog(f)
        K == KaliLog(f)
    IN /\ Kinds(K) = SubSeq(KaliKinds, 1, Len(K))
       /\ Cmds(K) = SubSeq(Cmds(KaliSteps), 1, Len(K))
       /\ K # << >> =>
            \E c \in At(L, "kali") :
              /\ L[c].ok
              /\ \A n \in 1..Len(K) : L[c + n] = K[n]
       /\ \A n \in 1..Len(K) :
            (~K[n].ok /\ n > 1) =>
              /\ n = Len(K)
              /\ f.edone
              /\ f.eerr = KaliSteps[n].err
              /\ L[Len(L)] = K[n]
       /\ (KaliOver(f) /\ ~KaliNoMatch(f)) =>
            \/ Len(K) = Len(KaliSteps)
            \/ (Len(K) > 1 /\ ~K[Len(K)].ok)
       /\ (f.edone /\ f.eerr \in {KaliSteps[n].err : n \in 2..Len(KaliSteps)}) =>
            (K # << >> /\ ~K[Len(K)].ok /\ f.eerr = KaliSteps[Len(K)].err)

\* On a Kali guest the backup failed, the sources were rewritten and the key
\* fetch failed: ensurePackage returned that error after three steps.
C19_Witness ==
  \E t \in Threads :
    LET f == th[t]
        K == KaliLog(f)
    IN /\ f.edone
       /\ Len(K) = 3
       /\ ~K[1].ok /\ K[2].ok /\ ~K[3].ok
       /\ f.eerr = "failed to download Kali archive keyring"

(***************************************************************************)
(* Detection after a failed detection, checked under Spec.                 *)
(***************************************************************************)

\* C20 as stated: once a detectPackageManager call for the guest has
\* failed with no supported manager, no detection probe is executed for the
\* guest again in the same run: not by the ensurePackage call, which
\* returns the failure, and not by later work of the pipeline.
C20_NoProbeAfterFailure ==
  \A t \in Threads :
    LET f == th[t]
    IN /\ f.nosupport < 2
       /\ (f.edone /\ f.nosupport >= 1) => f.eerr # ""

(***************************************************************************)
(* The result of runProvisioningPipeline, checked under Spec.              *)
(***************************************************************************)

\* runProvisioningPipeline has returned after its loop ran.
PipelineReturned(f) == f.pc = "p_ret" /\ f.looped

\* C21: once the loop has run, runProvisioningPipeline returns an error
\* exactly when the summary holds a 'failed' record, which is exactly when
\* the last ExecutePlaybook call returned an error, however many resolved
\* playbooks were never started.
C21_ErrorIffFailedRecord ==
  \A t \in Threads :
    LET f == th[t]
    IN PipelineReturned(f) =>
         /\ (f.perr # "") <=> HasFailures(f.Results)
         /\ (f.perr # "") <=> (f.xerr # "")
         /\ (f.perr # "") <=> (f.Results[Len(f.Results)].Status = "failed")
         /\ (f.perr = "") => Len(f.Results) = Len(f.playbookPaths)

\* The pipeline has returned an error after the second of three playbooks
\* failed; the third was never started.
C21_Witness ==
  \E t \in Threads :
    LET f == th[t]
    IN /\ PipelineReturned(f)
       /\ f.perr # ""
       /\ Len(f.playbookPaths) = 3
       /\ Len(f.Results) = 2
       /\ f.Results[1].Status = "success"
       /\ f.Results[2].Status = "failed"

\* C22 as stated: the summary table is rendered exactly when more than one
\* playbook was attempted, that is when the summary holds more than one
\* record, whatever the number of resolved playbooks.
C22_TableIffAttempted ==
  \A t \in Threads :
    LET f == th[t]
    IN PipelineReturned(f) => (f.printed <=> Len(f.Results) > 1)

\* What the code does: the table is rendered exactly when more than one
\* playbook was resolved.
C22_TableIffResolved ==
  \A t \in Threads :
    LET f == th[t]
    IN PipelineReturned(f) => (f.printed <=> Len(f.playbookPaths) > 1)

(***************************************************************************)
(* ExecRunner: Run, RunWithInput and the dry-run log.                      *)
(***************************************************************************)

\* The commands, argument lists and inputs the runner is called with.
RunnerNames == { << "w", "s", "l", ".", "e", "x", "e" >>, << "s", "o", "m", "e", "-", "c", "o", "m", "m", "a", "n", "d" >> }

RunnerArgWords == { << "-", "l" >>, << "a", "r", "g", " ", "1" >> }

RunnerArgs ==
  { << >> } \cup { << a >> : a \in RunnerArgWords }
            \cup { << a, b >> : a, b \in RunnerArgWords }

RunnerStdins == { << >>, << "y", "e", "s" >> }

\* fmt's %v of a []string: the elements between brackets, a space between
\* two of them.
RECURSIVE JoinWords(_)
JoinWords(args) ==
  IF Len(args) = 0 THEN << >>
  ELSE IF Len(args) = 1 THEN args[1]
  ELSE args[1] \o << " " >> \o JoinWords(Tail(args))

SprintV(args) == << "[" >> \o JoinWords(args) \o << "]" >>

\* fmt.Sprintf("[dry-run] %s %v", name, args)
dryRunLog(name, args) ==
  << "[", "d", "r", "y", "-", "r", "u", "n", "]", " " >> \o name \o << " " >> \o SprintV(args)

\* The frame of a call of the runner: the log in dry-run mode, else on its
\* way to cmd.Run().
RunnerCall(f0, dry, op, name, stdin, args) ==
  LET f == [f0 EXCEPT !.DryRun = dry, !.rop = op, !.rname = name,
                      !.rstdin = stdin, !.rargs = args]
  IN IF dry
       THEN [f EXCEPT !.pc = "r_ret", !.stdout = dryRunLog(name, args),
                      !.rstderr = << >>, !.runErr = NilErr]
       ELSE [f EXCEPT !.pc = "r_exec"]

\* func (r *ExecRunner) Run(name string, args ...string)
Run(t) ==
  /\ th[t].pc = "main"
  /\ \E dry \in BOOLEAN, name \in RunnerNames, args \in RunnerArgs :
       th' = [th EXCEPT ![t] = RunnerCall(th[t], dry, "Run", name, << >>, args)]
  /\ UNCHANGED <<staged, memoizedPMs, pmMutex, observers>>

\* Mutant: RunWithInput without the test of r.DryRun.
RunWithInputAlways(t) ==
  /\ th[t].pc = "main"
  /\ \E dry \in BOOLEAN, name \in RunnerNames, args \in RunnerArgs,
        stdin \in RunnerStdins :
       th' = [th EXCEPT ![t] =
                [RunnerCall(th[t], FALSE, "RunWithInput", name, stdin, args)
                   EXCEPT !.DryRun = dry]]
  /\ UNCHANGED <<staged, memoizedPMs, pmMutex, observers>>

\* func (r *ExecRunner) RunWithInput(name string, stdin string, args ...string)
RunWithInput(t) ==
  /\ th[t].pc = "main"
  /\ \E dry \in BOOLEAN, name \in RunnerNames, args \in RunnerArgs,
        stdin \in RunnerStdins :
       th' = [th EXCEPT ![t] =
                RunnerCall(th[t], dry, "RunWithInput", name, stdin, args)]
  /\ UNCHANGED <<staged, memoizedPMs, pmMutex, observers>>

\* What a command that was run leaves: its output, its stderr, its error.
ExecOutcomes ==
  { [out |-> << "h", "e", "l", "l", "o" >>, stderr |-> << >>, err |-> NilErr],
    [out |-> << >>, stderr |-> << "k", "i", "l", "l", "e", "d" >>, err |-> CHOOSE e \in RunErrors : e.kind = "timeout"],
    [out |-> << >>, stderr |-> << >>, err |-> NilErr] }

\* err := cmd.Run(); return outB.String(), errB.String(), err
RunExec(t) ==
  /\ th[t].pc = "r_exec"
  /\ \E r \in ExecOutcomes :
       th' = [th EXCEPT ![t] =
                [th[t] EXCEPT !.pc = "r_ret", !.executed = TRUE,
                              !.stdout = r.out, !.rstderr = r.stderr,
                              !.runErr = r.err]]
  /\ UNCHANGED <<staged, memoizedPMs, pmMutex, observers>>

\* The runner has returned to its caller.
RunReturn(t) ==
  /\ th[t].pc = "r_ret"
  /\ th' = [th EXCEPT ![t] = MainFrame(th[t].g)]
  /\ UNCHANGED <<staged, memoizedPMs, pmMutex, observers>>

NextRunner ==
  \E t \in Threads :
    \/ Run(t)
    \/ RunWithInput(t)
    \/ RunExec(t)
    \/ RunReturn(t)

SpecRunner == InitList /\ [][NextRunner]_vars

(***************************************************************************)
(* C23: Import makes its checks in the order name non-empty, install path  *)
(* non-empty, archive path non-empty, archive file exists, install         *)
(* directory creatable, name not already registered, and returns the error *)
(* of the first check that fails; when the name, the install path or the   *)
(* archive path is empty or the archive is missing, it returns an error    *)
(* without any invocation of the runner.                                   *)
(***************************************************************************)
Returned(f, op) == f.pc = "o_ret" /\ f.op = op

\* The name is a name of a record of the listing the check obtained.
Registered(f) ==
  \E n \in 1..Len(f.distros) : f.distros[n].Name = f.name

\* The error of the first of the six checks that fails on the arguments and
\* the host of the call, "" when none does.
FirstFailingCheck(f) ==
  IF f.name = << >> THEN "distribution name cannot be empty"
  ELSE IF f.InstallPath = "" THEN "installation path cannot be empty"
  ELSE IF f.TarFilePath = "" THEN "tar file path cannot be empty"
  ELSE IF f.statErr = "not exist" THEN "tar file does not exist"
  ELSE IF ~f.mkdirOK THEN "failed to create installation directory"
  ELSE IF f.rerr # "" THEN "failed to check if distro exists"
  ELSE IF Registered(f) THEN "distribution already exists"
  ELSE ""

C23_ImportChecksInOrder ==
  \A t \in Threads :
    LET f == th[t] IN
      Returned(f, "Import") =>
        /\ FirstFailingCheck(f) # "" => f.oerr = FirstFailingCheck(f)
        /\ FirstFailingCheck(f) = "" =>
             f.oerr \in {"", "failed to get absolute path", "failed to Import"}
        /\ (\/ f.name = << >> \/ f.InstallPath = "" \/ f.TarFilePath = ""
            \/ f.statErr = "not exist") => (f.oerr # "" /\ f.Calls = << >>)

\* An import of an unregistered name whose archive is missing although the
\* directory could not have been created either: the archive's error is
\* returned and nothing was run.
C23_Witness ==
  \E t \in Threads :
    LET f == th[t] IN
      /\ Returned(f, "Import")
      /\ f.name # << >> /\ f.InstallPath # "" /\ f.TarFilePath # ""
      /\ f.statErr = "not exist" /\ ~f.mkdirOK
      /\ f.oerr = "tar file does not exist" /\ f.Calls = << >>

\* Every check of Import is the first to fail in some call.
C23_WitnessRegistered ==
  \E t \in Threads :
    LET f == th[t] IN
      /\ Returned(f, "Import") /\ f.oerr = "distribution already exists"
      /\ Len(f.Calls) = 2

(***************************************************************************)
(* C24: a mutating command is issued only after the existence check of the *)
(* same call allowed it: Unregister and Export only if the listing         *)
(* returned without error and has a record whose name equals the argument  *)
(* exactly, Import only if the listing returned without error and has no   *)
(* such record; with an empty argument, a listing error, a missing name    *)
(* (Unregister, Export) or a registered name (Import) the call returns an  *)
(* error and issues no mutating command.                                   *)
(***************************************************************************)
Mutating == {"wsl.exe --import", "wsl.exe --unregister", "wsl.exe --export"}

\* The mutating commands among the runner calls of a frame, in order.
MutatingCalls(f) == SelectSeq(f.Calls, LAMBDA c : c \in Mutating)

\* IsDistroInstalled has obtained a listing in this call.
Listed(f) == f.pc \in {"o_listed", "o_run", "o_ret"} /\ Len(f.Calls) >= 1

C24_MutationAfterCheck ==
  \A t \in Threads :
    LET f == th[t] IN
      /\ (f.op \in {"Unregister", "Export"} /\ MutatingCalls(f) # << >>) =>
           (Listed(f) /\ f.rerr = "" /\ Registered(f))
      /\ (f.op = "Import" /\ MutatingCalls(f) # << >>) =>
           (Listed(f) /\ f.rerr = "" /\ ~Registered(f))
      /\ (/\ f.pc = "o_ret"
          /\ \/ f.name = << >>
             \/ f.op = "Export" /\ f.outputPath = ""
             \/ f.op = "Import" /\ (f.InstallPath = "" \/ f.TarFilePath = "")
             \/ f.rerr # ""
             \/ f.op \in {"Unregister", "Export"} /\ ~Registered(f)
             \/ f.op = "Import" /\ Registered(f)) =>
           (f.oerr # "" /\ MutatingCalls(f) = << >>)

\* A removal refused although the listing has the name in another case, and
\* an import of that name issued.
C24_Witness ==
  \E t \in Threads :
    LET f == th[t] IN
      /\ f.pc = "o_ret" /\ f.op = "Unregister" /\ f.rerr = ""
      /\ \E n \in 1..Len(f.distros) :
           f.distros[n].Name # f.name /\ ToLower(f.distros[n].Name) = ToLower(f.name)
      /\ f.oerr = "distribution does not exist" /\ MutatingCalls(f) = << >>

C24_WitnessIssued ==
  \E t \in Threads :
    LET f == th[t] IN
      /\ f.pc = "o_ret" /\ f.op = "Export" /\ Registered(f)
      /\ f.Calls = << "wsl.exe -l -v", "wsl.exe -l", "wsl.exe --export" >>

(***************************************************************************)
(* C25: on their success path Import, Unregister and Export each issue     *)
(* exactly one mutating invocation (--import, --unregister, --export),     *)
(* preceded only by the listing calls of the existence check (the primary  *)
(* one, and the fallback when the primary failed), and no other            *)
(* invocation.                                                             *)
(***************************************************************************)
C25_OneMutationOnSuccess ==
  \A t \in Threads :
    LET f == th[t] IN
      (f.pc = "o_ret" /\ f.oerr = "") =>
        /\ MutatingCalls(f) = << MutatingCommand(f.op) >>
        /\ f.Calls = IF f.lerr = NilErr
                       THEN << "wsl.exe -l -v", MutatingCommand(f.op) >>
                       ELSE << "wsl.exe -l -v", "wsl.exe -l",
                               MutatingCommand(f.op) >>

\* An import that succeeded after both listing commands failed benignly.
C25_Witness ==
  \E t \in Threads :
    LET f == th[t] IN
      /\ f.pc = "o_ret" /\ f.oerr = "" /\ f.op = "Import"
      /\ f.lerr # NilErr /\ f.fallbackErr # NilErr
      /\ f.Calls = << "wsl.exe -l -v", "wsl.exe -l", "wsl.exe --import" >>

(***************************************************************************)
(* C26: in dry-run mode Run and RunWithInput execute nothing and return a  *)
(* nil error, an empty stderr, and as stdout a log line that starts with   *)
(* "[dry-run] " followed by the command name and its arguments.            *)
(***************************************************************************)
DryRunMark == << "[", "d", "r", "y", "-", "r", "u", "n", "]", " " >>

C26_DryRunLogsOnly ==
  \A t \in Threads :
    LET f == th[t] IN
      (f.DryRun /\ f.rop \in {"Run", "RunWithInput"}) =>
        /\ ~f.executed /\ f.pc = "r_ret"
        /\ f.runErr = NilErr /\ f.rstderr = << >>
        /\ HasPrefix(f.stdout, DryRunMark \o f.rname)
        /\ Contains(TrimPrefix(f.stdout, DryRunMark \o f.rname), JoinWords(f.rargs))
        /\ \A n \in 1..Len(f.rargs) : Contains(f.stdout, f.rargs[n])

\* The runner of the test, and a dry run of RunWithInput with input to feed.
C26_Witness ==
  \E t \in Threads :
    LET f == th[t] IN
      /\ f.DryRun /\ f.pc = "r_ret" /\ f.rop = "RunWithInput"
      /\ f.rstdin # << >> /\ Len(f.rargs) = 2 /\ f.rargs[1] # f.rargs[2]
      /\ f.stdout = DryRunMark \o f.rname \o << " ", "[" >> \o f.rargs[1]
                      \o << " " >> \o f.rargs[2] \o << "]" >>

(***************************************************************************)
(* C27: InstallPackage issues the pre-install steps of the detected        *)
(* profile in registry order, then the install command, then the           *)
(* post-install steps in their order (only when the package is ansible and *)
(* the profile declares such steps); the first command that fails ends the *)
(* call with an error and no later command is issued.                      *)
(***************************************************************************)
\* The commands of a sequence of steps, each of kind k.
StepsOf(k, steps) == [n \in 1..Len(steps) |-> [kind |-> k, cmd |-> steps[n]]]

\* What InstallPackage is to issue on profile pm for a package.
InstallPlan(pm, packageName) ==
  StepsOf("pre", supportedPMs[pm].preInstallSteps)
    \o << [kind |-> "install",
           cmd |-> supportedPMs[pm].installCmd \o
                     (IF packageName = "ansible" /\ supportedPMs[pm].isAnsibleCore
                        THEN "ansible-core" ELSE packageName)] >>
    \o (IF packageName = "ansible"
          THEN StepsOf("post", supportedPMs[pm].ansiblePostInstallCmds)
          ELSE << >>)

\* The commands InstallPackage issued in the ensurePackage call of a frame.
Installed(f) == OfKinds(EnsureLog(f), InstallKinds)

\* The frame is in, or back from, the InstallPackage of an ensurePackage call
\* and has issued a command there.
InInstall(f) ==
  /\ f.estart < Len(f.log) \/ f.edone
  /\ ~f.present /\ Installed(f) # << >>

C27_InstallOrder ==
  \A t \in Threads :
    LET f == th[t]
        I == Installed(f)
        plan == InstallPlan(f.pm, f.packageName)
        L == EnsureLog(f)
    IN InInstall(f) =>
         /\ Len(I) <= Len(plan)
         /\ \A k \in 1..Len(I) :
              I[k].kind = plan[k].kind /\ I[k].cmd = plan[k].cmd
         /\ \A k \in 1..(Len(I) - 1) : I[k].ok
         /\ SubSeq(L, Len(L) - Len(I) + 1, Len(L)) = I
         /\ ~I[Len(I)].ok => (f.edone /\ f.eerr # "")
         /\ (f.edone /\ f.eerr = "") => Len(I) = Len(plan)

\* An install that went through the install command and both post-install
\* steps, and one stopped by its pre-install step.
C27_Witness ==
  \E t \in Threads :
    LET f == th[t] IN
      /\ InInstall(f) /\ f.edone /\ f.eerr = ""
      /\ Len(Installed(f)) = 3 /\ Installed(f)[3].kind = "post"

C27_WitnessStopped ==
  \E t \in Threads :
    LET f == th[t] IN
      /\ InInstall(f) /\ f.edone /\ f.eerr # ""
      /\ Len(Installed(f)) = 1 /\ Installed(f)[1].kind = "pre"

(***************************************************************************)
(* C28: when the presence probe fails, ensurePackage invokes the           *)
(* repository repair and an update command only if the detected profile is *)
(* apt, and runs the profile's standard update command only if the guest   *)
(* is not the specially-handled distribution: where the repair found that  *)
(* distribution, the only index refresh is the one inside the repair. For  *)
(* every other profile neither a repair command nor an update command is   *)
(* issued before the install sequence.                                     *)
(***************************************************************************)
\* The commands of the preparation: the fingerprint probes, the repair
\* steps, the standard update and the corrective action.
PrepKinds == {"kali", "update", "fix"} \cup Range(KaliKinds)

\* An ensurePackage call whose presence probe failed, running or returned.
AbsentCall(f) ==
  /\ f.pc \notin {"main", "off", "idle", "e_probe"}
  /\ ~f.present /\ EnsureLog(f) # << >>

\* The repair of the call found the distribution it repairs.
RepairMatched(f) ==
  LET L == EnsureLog(f)
  IN \E c \in At(L, "kali") : (\A n \in At(L, "kali") : c <= n) /\ L[c].ok

\* Preparation commands are issued on the apt profile only.
C28_PrepOnAptOnly ==
  \A t \in Threads :
    LET f == th[t] IN
      (AbsentCall(f) /\ OfKinds(EnsureLog(f), PrepKinds) # << >>) =>
        (f.pm # NilPM /\ supportedPMs[f.pm].name = "apt")

\* The standard update follows a fingerprint probe of ensurePackage itself
\* that did not match.
C28_UpdateAfterOwnProbe ==
  \A t \in Threads :
    LET f == th[t]
        L == EnsureLog(f)
    IN AbsentCall(f) =>
         \A u \in At(L, "update") :
           \E c \in At(L, "kali") :
             /\ c < u /\ ~L[c].ok
             /\ \A n \in At(L, "kali") : n <= c

\* C28: preparation commands are issued on the apt profile only, and where
\* the repair of the call found the distribution it repairs, no standard
\* update is issued: the only index refresh is the one inside the repair.
C28_RepairRefreshOnly ==
  \A t \in Threads :
    LET f == th[t] IN
      AbsentCall(f) =>
        /\ OfKinds(EnsureLog(f), PrepKinds) # << >> =>
             (f.pm # NilPM /\ supportedPMs[f.pm].name = "apt")
        /\ RepairMatched(f) => At(EnsureLog(f), "update") = {}

(***************************************************************************)
(* C29: the package name put into the install command is "ansible-core"   *)
(* if and only if the requested package is "ansible" and the detected      *)
(* profile carries the alternate-name flag; in every other case the        *)
(* install command carries the requested name unchanged.                   *)
(***************************************************************************)
C29_AlternateName ==
  \A t \in Threads :
    LET f == th[t]
        L == EnsureLog(f)
    IN AbsentCall(f) =>
         \A n \in At(L, "install") :
           LET flagged == f.packageName = "ansible" /\ supportedPMs[f.pm].isAnsibleCore
           IN /\ flagged <=> L[n].cmd = supportedPMs[f.pm].installCmd \o "ansible-core"
              /\ ~flagged => L[n].cmd = supportedPMs[f.pm].installCmd \o f.packageName

\* ansible installed under its alternate name, on a profile that has the
\* flag.
C29_Witness ==
  \E t \in Threads :
    LET f == th[t]
        L == EnsureLog(f)
    IN /\ AbsentCall(f) /\ f.packageName = "ansible"
       /\ \E n \in At(L, "install") :
            L[n].cmd = "sudo dnf install -y ansible-core"

\* ansible installed under its own name, on a profile without the flag.
C29_WitnessUnchanged ==
  \E t \in Threads :
    LET f == th[t]
        L == EnsureLog(f)
    IN /\ AbsentCall(f) /\ f.packageName = "ansible"
       /\ \E n \in At(L, "install") :
            L[n].cmd = "sudo yum install -y ansible"

(***************************************************************************)
(* C30: ensurePackage returns ok only if either the presence probe for the *)
(* command succeeded, or detection succeeded and every required            *)
(* preparation step, the install command and every applicable             *)
(* post-install step were issued and succeeded in the same call; it never  *)
(* returns ok after a failed install command.                              *)
(***************************************************************************)
\* The repair steps whose failure is fatal.
FatalKaliKinds ==
  {KaliSteps[n].kind : n \in {m \in 1..Len(KaliSteps) : KaliSteps[m].fatal}}

\* The preparation of the call was carried out: where the repair matched,
\* its fatal steps were all issued and succeeded; where the update was run,
\* its last attempt succeeded.
PreparationDone(f) ==
  LET L == EnsureLog(f)
  IN /\ \A n \in 1..Len(L) : L[n].kind \in FatalKaliKinds => L[n].ok
     /\ RepairMatched(f) => \A k \in FatalKaliKinds : At(L, k) # {}
     /\ \A u \in At(L, "update") :
          (\A n \in At(L, "update") : n <= u) => L[u].ok

\* The whole install sequence of the profile was issued and succeeded.
InstallDone(f) ==
  LET I == Installed(f)
      plan == InstallPlan(f.pm, f.packageName)
  IN /\ Len(I) = Len(plan)
     /\ \A k \in 1..Len(I) :
          I[k].kind = plan[k].kind /\ I[k].cmd = plan[k].cmd /\ I[k].ok

RefreshKinds == {"kali-update", "update"}

\* The answers of the fingerprint probes of a call, in order.
ProbeAnswers(f) ==
  LET K == OfKinds(EnsureLog(f), {"kali"})
  IN [n \in 1..Len(K) |-> K[n].ok]

\* C31: on the apt profile every install command of an ensurePackage call
\* comes after an index refresh of the same call that succeeded.
C31_RefreshBeforeInstall ==
  \A t \in Threads :
    LET f == th[t]
        L == EnsureLog(f)
    IN (AbsentCall(f) /\ f.pm # NilPM /\ supportedPMs[f.pm].name = "apt") =>
         \A n \in At(L, "install") :
           \E u \in 1..(n - 1) : L[u].kind \in RefreshKinds /\ L[u].ok

\* The same, for the calls whose two fingerprint probes agree.
C31_RefreshWhenProbesAgree ==
  \A t \in Threads :
    LET f == th[t]
        L == EnsureLog(f)
    IN (/\ AbsentCall(f) /\ f.pm # NilPM /\ supportedPMs[f.pm].name = "apt"
        /\ ProbeAnswers(f) \in {<< TRUE, TRUE >>, << FALSE, FALSE >>}) =>
         \A n \in At(L, "install") :
           \E u \in 1..(n - 1) : L[u].kind \in RefreshKinds /\ L[u].ok

\* The repair's probe fails, the probe of ensurePackage matches, and the
\* install command is issued.
C31_ProbesDisagree ==
  \E t \in Threads :
    LET f == th[t]
        L == EnsureLog(f)
    IN /\ AbsentCall(f) /\ ProbeAnswers(f) = << FALSE, TRUE >>
       /\ At(L, "install") # {}
       /\ OfKinds(L, RefreshKinds) = << >>

(***************************************************************************)
(* C32: provided every external command returns, every                     *)
(* runProvisioningPipeline run terminates after invoking ExecutePlaybook   *)
(* at most once per resolved playbook, and no external command is          *)
(* re-issued because an earlier issue of it failed, the one exception      *)
(* being the update retry of ensurePackage.                                *)
(***************************************************************************)
\* Every external command returns: the goroutine always takes its next step.
SpecFair == Spec /\ WF_vars(Next)

\* Every run of the pipeline returns.
C32_Terminates ==
  \A t \in Threads : (th[t].pc = "p_loop") ~> (th[t].pc = "p_ret")

\* ExecutePlaybook is invoked for the resolved playbooks in order, each at
\* most once.
C32_OncePerPlaybook ==
  \A t \in Threads :
    LET f == th[t] IN
      (f.playbookPaths # << >>) =>
        /\ Len(f.execCalls) <= Len(f.playbookPaths)
        /\ f.execCalls = SubSeq(f.playbookPaths, 1, Len(f.execCalls))

\* Within one ExecutePlaybook call a command follows a failed issue of the
\* same command only as the update retry, once, or as the fingerprint probe
\* of ensurePackage, which is issued whatever the probe of the repair
\* answered.
C32_ReissueInCall ==
  \A t \in Threads :
    LET L == th[t].log IN
      /\ \A m, n \in 1..Len(L) :
           (m < n /\ L[m].cmd = L[n].cmd /\ ~L[m].ok) =>
             (L[n].kind \in {"update", "kali"} /\ L[m].kind = L[n].kind)
      /\ Len(OfKinds(L, {"update"})) <= 2

\* C32: ExecutePlaybook is invoked at most once per resolved playbook, and
\* in a pipeline run no command is issued again after an issue of it that
\* failed, the update retry and the second fingerprint probe apart: neither
\* within a call, nor a detection probe in a later call of the run.
C32_NoReissueAfterFailure ==
  \A t \in Threads :
    LET f == th[t]
        L == f.log
    IN (f.playbookPaths # << >>) =>
         /\ f.execCalls = SubSeq(f.playbookPaths, 1, Len(f.execCalls))
         /\ \A m, n \in 1..Len(L) :
              (m < n /\ L[m].cmd = L[n].cmd /\ ~L[m].ok) =>
                L[n].kind \in {"update", "kali"}
         /\ \A n \in 1..Len(L) : L[n].kind = "detect" => f.nosupport < 2

(***************************************************************************)
(* C33: runProvisioningPipeline returns an error without invoking          *)
(* ExecutePlaybook and without issuing any guest command when an           *)
(* extra-vars entry has no "=" or has an empty key, when a playbook input  *)
(* cannot be resolved, or when no playbook is resolved at all.             *)
(***************************************************************************)
\* The entry has no "=", or nothing but spaces before its first "=".
IllFormedEntry(kv) ==
  \/ \A n \in 1..Len(kv) : kv[n] # "="
  \/ \E n \in 1..Len(kv) :
       /\ kv[n] = "="
       /\ \A m \in 1..(n - 1) : kv[m] \in UnicodeSpace

\* The arguments the pipeline was given are still on the frame.
ArgsKnown(f) == f.kvs # << >>

\* The arguments do not pass the validation.
InvalidArgs(f) ==
  \/ \E n \in 1..Len(f.kvs) : IllFormedEntry(f.kvs[n])
  \/ \E n \in 1..Len(f.inputs) : f.inputs[n] = 0
  \/ f.inputs = << >>

C33_ValidationFirst ==
  \A t \in Threads :
    LET f == th[t] IN
      (ArgsKnown(f) /\ InvalidArgs(f)) =>
        /\ f.pc = "p_ret" /\ f.perr # "" /\ ~f.looped
        /\ f.execCalls = << >> /\ f.log = << >> /\ f.touched = {}

\* A well-formed entry before one without "=", and resolvable playbooks:
\* the pipeline has returned the validation error.
C33_Witness ==
  \E t \in Threads :
    LET f == th[t] IN
      /\ f.pc = "p_ret" /\ f.perr = "invalid extra-vars"
      /\ Len(f.kvs) = 2
      /\ ~IllFormedEntry(f.kvs[1]) /\ IllFormedEntry(f.kvs[2])
      /\ Len(f.inputs) = 2 /\ \A n \in 1..2 : f.inputs[n] # 0
      /\ f.execCalls = << >>

\* Valid arguments parsed as the code parses them reach the loop.
C33_WitnessValid ==
  \E t \in Threads :
    LET f == th[t] IN
      /\ f.pc = "p_loop" /\ ArgsKnown(f) /\ ~InvalidArgs(f)
      /\ f.kvs[1][1] = " "
      /\ f.opts.ExtraVars = << [k |-> "user", v |-> "john"] >>

(***************************************************************************)
(* C34: when a single pipeline targets a guest, every time the playbook    *)
(* command runs the content at the fixed staged path is the content of the *)
(* playbook that the copy step of the same ExecutePlaybook call wrote:     *)
(* each run overwrites the same path and none executes content staged for  *)
(* an earlier playbook.                                                    *)
(***************************************************************************)
\* The playbook command of the ExecutePlaybook call of a frame has run.
HasRun(f) == f.pc = "x_ret" /\ At(f.log, "run") # {}

C34_RunsWhatItStaged ==
  \A t \in Threads :
    LET f == th[t] IN
      /\ f.pc = "x_run" =>
           /\ staged[f.g] = f.playbookPath
           /\ \E c \in At(f.log, "copy") : f.log[c].ok
      /\ HasRun(f) =>
           /\ f.ran = f.playbookPath
           /\ \A k \in 1..(f.idx - 1) : f.ran # f.playbookPaths[k]
      /\ \A c \in At(f.log, "copy") :
           f.log[c].cmd = "cat > '/tmp/autowsl-playbook.yml' && chmod 644 '/tmp/autowsl-playbook.yml'"

\* The third playbook of a run has been executed, at the path where the
\* first two were.
C34_Witness ==
  \E t \in Threads :
    LET f == th[t] IN
      /\ HasRun(f) /\ f.idx = 3 /\ Len(f.Results) = 2
      /\ f.ran = f.playbookPaths[3]

(***************************************************************************)
(* C35. Two ExecutePlaybook calls at once against one guest.               *)
(***************************************************************************)
\* C35: with two ExecutePlaybook calls running at once against the same
\* guest, the copy step of a call that succeeds replaces whatever the fixed
\* staged path held, the other call's copy included, and the playbook
\* command of a call runs whatever the path holds at that moment, not what
\* its own call staged; nothing orders one call's copy and execute against
\* the other's.
C35_SharedStagedPath ==
  [][\A t \in Callers :
       /\ (th[t].pc = "x_write" /\ th'[t].pc = "x_run") =>
            staged'[th[t].g] = th[t].playbookPath
       /\ (th[t].pc = "x_run" /\ th'[t].pc = "x_ret") =>
            /\ th'[t].ran = staged[th[t].g]
            /\ staged' = staged]_vars

\* A call whose own copy succeeded has executed the playbook the other
\* call staged after it.
C35_Witness ==
  \E t \in Callers, u \in Callers :
    LET f == th[t] IN
      /\ t # u
      /\ HasRun(f)
      /\ \E c \in At(f.log, "copy") : f.log[c].ok
      /\ f.ran # f.playbookPath
      /\ f.ran = u
      /\ th[u].pc = "x_run" /\ th[u].playbookPath = u

(***************************************************************************)
(* C36. The records of parseWSLListBasic.                                  *)
(***************************************************************************)
DefaultTag == << "(", "D", "e", "f", "a", "u", "l", "t", ")" >>

\* The line without the tag, the asterisks and the spaces around it.
BasicName(l) ==
  TrimLeft(TrimSpace(RemoveAll(TrimSpace(l), DefaultTag)), {"*", " "})

\* A line that is neither blank nor a header sentence.
BasicDataLine(l) ==
  /\ TrimSpace(l) # << >>
  /\ ~IsBasicHeader(ToLower(TrimSpace(l)))

\* The k-th member of a set of line numbers.
Kth(K, k) == CHOOSE n \in K : Cardinality({ m \in K : m <= n }) = k

\* The records are those of the lines K, in order.
BasicRecordsOf(f, K) ==
  /\ Len(f.pDistros) = Cardinality(K)
  /\ \A k \in 1..Cardinality(K) :
       LET l == f.pItems[Kth(K, k)]
           d == f.pDistros[k]
       IN /\ d.Default <=> Contains(l, DefaultTag)
          /\ d.Name = BasicName(l)
          /\ d.State = << >> /\ d.Version = << >>
          /\ (HasPrefix(TrimSpace(l), << "*" >>) /\ ~Contains(l, DefaultTag))
               => ~d.Default

\* C36 as stated: parseWSLListBasic returns one record per line that is
\* neither blank nor a header, in input order, Default exactly for the
\* lines containing (Default), the name being the line without that text
\* and without leading asterisks and spaces, state and version empty.
C36_OnePerLine ==
  \A t \in Threads :
    LET f == th[t] IN
      f.pc = "pb_ret" =>
        BasicRecordsOf(f, { n \in 1..Len(f.pItems) : BasicDataLine(f.pItems[n]) })

\* C36: parseWSLListBasic returns one record per line that is neither
\* blank nor a header and that has a name left once (Default), leading
\* asterisks and spaces are removed, in input order; Default is true
\* exactly for the lines containing (Default), the name is what is left,
\* state and version are empty, and a leading asterisk alone never marks a
\* record as default.
C36_OnePerNamedLine ==
  \A t \in Threads :
    LET f == th[t] IN
      f.pc = "pb_ret" =>
        BasicRecordsOf(f, { n \in 1..Len(f.pItems) :
                              /\ BasicDataLine(f.pItems[n])
                              /\ BasicName(f.pItems[n]) # << >> })

\* A line with a leading asterisk and no tag, then a tagged line: two
\* records, only the second the default.
C36_Witness ==
  \E t \in Threads :
    LET f == th[t] IN
      /\ f.pc = "pb_ret" /\ Len(f.pItems) = 2 /\ Len(f.pDistros) = 2
      /\ HasPrefix(f.pItems[1], << "*" >>)
      /\ ~Contains(f.pItems[1], DefaultTag)
      /\ Contains(f.pItems[2], DefaultTag)
      /\ ~f.pDistros[1].Default /\ f.pDistros[2].Default

(***************************************************************************)
(* C37. ResolveMultiple returns every path once.                           *)
(***************************************************************************)
\* The paths the inputs name, in the order they are named.
RECURSIVE NamedPaths(_)
NamedPaths(inputs) ==
  IF Len(inputs) = 0 THEN << >>
  ELSE Resolve(Head(inputs)).paths \o NamedPaths(Tail(inputs))

\* Where a path is named first.
FirstNamed(named, p) == CHOOSE n \in 1..Len(named) :
  named[n] = p /\ \A m \in 1..(n - 1) : named[m] # p

NoRepeat(q) == \A i, j \in 1..Len(q) : q[i] = q[j] => i = j

\* C37: ResolveMultiple returns every path the inputs resolve to once and
\* only once, in the order in which the paths are first named, and a
\* pipeline run invokes ExecutePlaybook for the paths returned, in their
\* order, never twice for one path.
C37_EveryPathOnce ==
  \A t \in Threads :
    LET f == th[t]
        named == NamedPaths(f.inputs)
        q == f.playbookPaths
    IN /\ (ArgsKnown(f) /\ f.pc = "p_loop") =>
            /\ NoRepeat(q)
            /\ { q[i] : i \in 1..Len(q) } = { named[n] : n \in 1..Len(named) }
            /\ \A i, j \in 1..Len(q) :
                 i < j => FirstNamed(named, q[i]) < FirstNamed(named, q[j])
       /\ f.execCalls # << >> =>
            /\ NoRepeat(f.execCalls)
            /\ Len(f.execCalls) <= Len(q)
            /\ \A k \in 1..Len(f.execCalls) : f.execCalls[k] = q[k]

\* Three inputs naming two paths, one of them three times, are being
\* turned into two ExecutePlaybook calls.
C37_Witness ==
  \E t \in Threads :
    LET f == th[t] IN
      /\ ArgsKnown(f) /\ f.pc = "p_loop"
      /\ f.inputs = << 2, CommaList, 2 >>
      /\ f.playbookPaths = << 2, 1 >>

(***************************************************************************)
(* C38. runInstall after a successful import.                              *)
(***************************************************************************)
\* C38: once wsl.Import has succeeded, runInstall returns nil whatever the
\* provisioning pipeline returned, and the return after the pipeline
\* issues no command: the wsl.exe calls made (the import the only one of
\* them that changes a distribution, no unregister), the guest commands
\* and the staged file are what they were when the pipeline returned.
C38_ImportedMeansSuccess ==
  [][\A t \in Threads :
       LET f == th[t] IN
         /\ f.ri = "pipeline" =>
              /\ f.Calls # << >>
              /\ f.Calls[Len(f.Calls)] = "wsl.exe --import"
              /\ \A n \in 1..Len(f.Calls) : f.Calls[n] # "wsl.exe --unregister"
         /\ (f.ri = "pipeline" /\ f.pc = "p_ret") =>
              /\ th'[t].pc = "ri_ret" /\ th'[t].rierr = ""
              /\ th'[t].perr = f.perr
              /\ th'[t].Calls = f.Calls /\ th'[t].log = f.log
              /\ th'[t].touched = f.touched
              /\ staged' = staged]_vars

\* runInstall has returned nil although a playbook of the pipeline failed;
\* the import is the last wsl.exe call it made.
C38_Witness ==
  \E t \in Threads :
    LET f == th[t] IN
      /\ f.pc = "ri_ret" /\ f.rierr = ""
      /\ f.perr # "" /\ f.looped /\ f.execCalls # << >>
      /\ f.Calls[Len(f.Calls)] = "wsl.exe --import"

====
